---- MODULE Spec2Model ----
(***************************************************************************)
(* Admin job schedule management (AJAPI: submit, updateSchedule, ...) and  *)
(* the scan job (Job.Validate, Job.Run) of harbor, as state machines.      *)
(*                                                                         *)
(* The record store (dao), the job service client and the scanner client   *)
(* are external: each call made to them is an operator that yields the set *)
(* of its possible outcomes (answer and resulting world), and each handler *)
(* is the set of worlds its code can end in.                               *)
(***************************************************************************)
EXTENDS Integers, Sequences, FiniteSets, TLC

VARIABLES
    adminJobs,   \* the admin_job table: the records not deleted
    nextID,      \* the id the store gives to the next record
    jsJobs,      \* the job service: the jobs it holds (submitted, not stopped)
    nextUUID,    \* the uuid the job service gives to the next job
    calls,       \* the store and job service calls of the latest request, in order
    resp,        \* the response of the latest request
    last,        \* the latest step: the operation and its request
    procs,       \* concurrent submit requests: each one's position
    jobParams,       \* the parameters of the scan job
    validateResult,  \* what Validate answered: "none" before it ran
    runPc,           \* Run: "idle", "polling" (at wg.Wait) or "done"
    runErr,          \* the error Run returned
    workers,         \* the pollers, one per mime type
    errs,            \* the error slots, one per poller
    cancelled,       \* whether the system context is done
    scanCalls,       \* the calls made to the scanner client pool and the scanner,
                     \* and the one that failed
    checkins,        \* per poller, the check-ins it made
    jobLog,          \* the lines Run wrote to the job log
    twinLog          \* the lines of the same run made with another credential

adminVars == <<adminJobs, nextID, jsJobs, nextUUID, calls, resp, last>>
scanVars == <<jobParams, validateResult, runPc, runErr, workers, errs, cancelled,
              scanCalls, checkins, jobLog, twinLog>>
vars == <<adminJobs, nextID, jsJobs, nextUUID, calls, resp, last, procs,
          jobParams, validateResult, runPc, runErr, workers, errs, cancelled,
          scanCalls, checkins, jobLog, twinLog>>

----------------------------------------------------------------------------
(* Bounds *)

\* number of records the store ever creates
MaxID == 2

\* number of concurrent submit requests
NumProcs == 2

----------------------------------------------------------------------------
(* src/core/api/models/admin_job.go *)

ScheduleHourly == "Hourly"
ScheduleDaily == "Daily"
ScheduleWeekly == "Weekly"
ScheduleCustom == "Custom"
ScheduleManual == "Manual"
ScheduleNone == "None"

JobKindPeriodic == "Periodic"
JobKindGeneric == "Generic"

\* the job names and the schedules requests are drawn from
Names == {"scan-all", "gc"}

ScheduleParams ==
    { [type |-> ScheduleDaily,  cron |-> "0 0 2 * * *"],
      [type |-> ScheduleCustom, cron |-> "0 */5 * * * *"],
      [type |-> ScheduleManual, cron |-> ""],
      [type |-> ScheduleNone,   cron |-> ""] }

AdminJobReqs == [name : Names, schedule : ScheduleParams]

\* JobKind: the switch on Schedule.Type
JobKind(ar) ==
    IF ar.schedule.type \in {ScheduleHourly, ScheduleDaily, ScheduleWeekly, ScheduleCustom}
    THEN JobKindPeriodic
    ELSE IF ar.schedule.type = ScheduleManual THEN JobKindGeneric ELSE ""

IsPeriodic(ar) == JobKind(ar) = JobKindPeriodic

CronStringPeriodicOnly(ar) ==
    IF ar.schedule.type \in {ScheduleHourly, ScheduleDaily, ScheduleWeekly, ScheduleCustom}
    THEN <<"{", "type", ar.schedule.type, "cron", ar.schedule.cron, "}">>
    ELSE <<>>

\* CronString: json.Marshal(ar.Schedule), the text as its sequence of tokens
CronString(ar) == <<"{", "type", ar.schedule.type, "cron", ar.schedule.cron, "}">>

\* ToJob: the job handed to the job service; the status hook ends in the record id
ToJob(ar, id) ==
    [ name |-> ar.name, kind |-> JobKind(ar), cron |-> ar.schedule.cron,
      unique |-> TRUE, hook |-> id ]

----------------------------------------------------------------------------
(* The world a handler runs in, and the calls it makes *)

NoUUID == 0

World == [ jobs |-> adminJobs, nextID |-> nextID, js |-> jsJobs,
           nextUUID |-> nextUUID, calls |-> calls, resp |-> resp ]

Call(w, op, arg, ans) ==
    [w EXCEPT !.calls = Append(@, [op |-> op, arg |-> arg, ans |-> ans])]

\* HandleInternalServerError, HandleStatusPreconditionFailed, HandleConflict
StatusOK == 200
StatusConflict == 409
StatusPreconditionFailed == 412
StatusInternalServerError == 500

Handle(w, code) == [w EXCEPT !.resp = code]

\* dao.GetAdminJobs(query{Name, Kind}): the records matching, or an error
GetAdminJobs(w, name, kind) ==
    { [ err |-> TRUE, jobs |-> {}, w |-> Call(w, "GetAdminJobs", name, "err") ],
      [ err |-> FALSE,
        jobs |-> { j \in w.jobs : j.name = name /\ j.kind = kind },
        w |-> Call(w, "GetAdminJobs", name, "ok") ] }

\* dao.AddAdminJob(job): the new record's id, or an error
AddAdminJob(w, name, kind, cron) ==
    { [ err |-> TRUE, id |-> 0, w |-> Call(w, "AddAdminJob", w.nextID, "err") ],
      [ err |-> FALSE, id |-> w.nextID,
        w |-> Call([w EXCEPT !.jobs = @ \cup { [ id |-> w.nextID, name |-> name,
                                                 kind |-> kind, cron |-> cron,
                                                 uuid |-> NoUUID ] },
                             !.nextID = @ + 1],
                   "AddAdminJob", w.nextID, "ok") ] }

\* dao.DeleteAdminJob(id)
DeleteAdminJob(w, id) ==
    { [ err |-> TRUE, w |-> Call(w, "DeleteAdminJob", id, "err") ],
      [ err |-> FALSE,
        w |-> Call([w EXCEPT !.jobs = { j \in @ : j.id # id }],
                   "DeleteAdminJob", id, "ok") ] }

\* dao.SetAdminJobUUID(id, uuid)
SetAdminJobUUID(w, id, uuid) ==
    { [ err |-> TRUE, w |-> Call(w, "SetAdminJobUUID", id, "err") ],
      [ err |-> FALSE,
        w |-> Call([w EXCEPT !.jobs =
                       { IF j.id = id THEN [j EXCEPT !.uuid = uuid] ELSE j : j \in @ }],
                   "SetAdminJobUUID", id, "ok") ] }

\* GetJobServiceClient().PostAction(uuid, stop): stopped, 404 when the job
\* service holds no such job, another http error, or an error that is no http error
PostActionStop(w, uuid) ==
    { [ err |-> "http500", w |-> Call(w, "PostAction", uuid, "http500") ],
      [ err |-> "other", w |-> Call(w, "PostAction", uuid, "other") ] }
    \cup
    ( IF \E j \in w.js : j.uuid = uuid
      THEN { [ err |-> "nil",
               w |-> Call([w EXCEPT !.js = { j \in @ : j.uuid # uuid }],
                          "PostAction", uuid, "nil") ] }
      ELSE { [ err |-> "http404", w |-> Call(w, "PostAction", uuid, "http404") ] } )

\* GetJobServiceClient().SubmitJob(job): the uuid of the accepted job, 409, or
\* another error
SubmitJob(w, job) ==
    { [ err |-> "http409", uuid |-> NoUUID, w |-> Call(w, "SubmitJob", job.hook, "http409") ],
      [ err |-> "other", uuid |-> NoUUID, w |-> Call(w, "SubmitJob", job.hook, "other") ],
      [ err |-> "nil", uuid |-> w.nextUUID,
        w |-> Call([w EXCEPT !.js = @ \cup { [ uuid |-> w.nextUUID, name |-> job.name,
                                               kind |-> job.kind, hook |-> job.hook ] },
                             !.nextUUID = @ + 1],
                   "SubmitJob", job.hook, "nil") ] }

----------------------------------------------------------------------------
(* AJAPI.submit *)

\* the uniqueness check of a periodic request: whether submit goes on
submitCheckNoQuery(w, ajr) == { [pass |-> TRUE, w |-> w] }

submitCheckOffByOne(w, ajr) ==
    IF IsPeriodic(ajr)
    THEN { IF r.err
           THEN [pass |-> FALSE, w |-> Handle(r.w, StatusInternalServerError)]
           ELSE IF Cardinality(r.jobs) > 1
           THEN [pass |-> FALSE, w |-> Handle(r.w, StatusPreconditionFailed)]
           ELSE [pass |-> TRUE, w |-> r.w]
           : r \in GetAdminJobs(w, ajr.name, JobKindPeriodic) }
    ELSE { [pass |-> TRUE, w |-> w] }

submitCheckAllKinds(w, ajr) ==
    { IF r.err
      THEN [pass |-> FALSE, w |-> Handle(r.w, StatusInternalServerError)]
      ELSE IF Cardinality(r.jobs) # 0
      THEN [pass |-> FALSE, w |-> Handle(r.w, StatusPreconditionFailed)]
      ELSE [pass |-> TRUE, w |-> r.w]
      : r \in GetAdminJobs(w, ajr.name, JobKindPeriodic) }

submitCheck(w, ajr) ==
    IF IsPeriodic(ajr)
    THEN { IF r.err
           THEN [pass |-> FALSE, w |-> Handle(r.w, StatusInternalServerError)]
           ELSE IF Cardinality(r.jobs) # 0
           THEN [pass |-> FALSE, w |-> Handle(r.w, StatusPreconditionFailed)]
           ELSE [pass |-> TRUE, w |-> r.w]
           : r \in GetAdminJobs(w, ajr.name, JobKindPeriodic) }
    ELSE { [pass |-> TRUE, w |-> w] }

\* after SubmitJob: delete the record on failure, store the uuid on success
submitFinishKeepRecord(s, id) ==
    IF s.err # "nil"
    THEN { Handle(s.w, IF s.err = "http409" THEN StatusConflict
                       ELSE StatusInternalServerError) }
    ELSE { IF u.err THEN Handle(u.w, StatusInternalServerError) ELSE u.w
           : u \in SetAdminJobUUID(s.w, id, s.uuid) }

submitFinishNoUUID(s, id) ==
    IF s.err # "nil"
    THEN { Handle(d.w, IF s.err = "http409" THEN StatusConflict
                       ELSE StatusInternalServerError)
           : d \in DeleteAdminJob(s.w, id) }
    ELSE { s.w }

submitFinish(s, id) ==
    IF s.err # "nil"
    THEN { Handle(d.w, IF s.err = "http409" THEN StatusConflict
                       ELSE StatusInternalServerError)
           : d \in DeleteAdminJob(s.w, id) }
    ELSE { IF u.err THEN Handle(u.w, StatusInternalServerError) ELSE u.w
           : u \in SetAdminJobUUID(s.w, id, s.uuid) }

\* from AddAdminJob to the end
submitCreateNoID(w, ajr) ==
    UNION { IF a.err
            THEN { Handle(a.w, StatusInternalServerError) }
            ELSE UNION { submitFinish(s, a.id) : s \in SubmitJob(a.w, ToJob(ajr, 0)) }
            : a \in AddAdminJob(w, ajr.name, JobKind(ajr), CronString(ajr)) }

submitCreateReplace(w, ajr) ==
    UNION { IF a.err
            THEN { Handle(a.w, StatusInternalServerError) }
            ELSE UNION { submitFinish(s, a.id) : s \in SubmitJob(a.w, ToJob(ajr, a.id)) }
            : a \in AddAdminJob([w EXCEPT !.jobs = { j \in @ : ~(j.name = ajr.name /\ j.kind = JobKind(ajr)) }],
                                ajr.name, JobKind(ajr), CronString(ajr)) }

submitCreate(w, ajr) ==
    UNION { IF a.err
            THEN { Handle(a.w, StatusInternalServerError) }
            ELSE UNION { submitFinish(s, a.id) : s \in SubmitJob(a.w, ToJob(ajr, a.id)) }
            : a \in AddAdminJob(w, ajr.name, JobKind(ajr), CronString(ajr)) }

submit(w, ajr) ==
    UNION { IF c.pass THEN submitCreate(c.w, ajr) ELSE { c.w } : c \in submitCheck(w, ajr) }

----------------------------------------------------------------------------
(* AJAPI.updateSchedule *)

\* after the stop request: delete the record, then submit unless the type is None
updateScheduleReplaceKeep(w, ajr, job) ==
    IF ajr.schedule.type # ScheduleNone THEN submit(w, ajr) ELSE { w }

updateScheduleReplace(w, ajr, job) ==
    UNION { IF d.err
            THEN { Handle(d.w, StatusInternalServerError) }
            ELSE IF ajr.schedule.type # ScheduleNone
            THEN submit(d.w, ajr)
            ELSE { d.w }
            : d \in DeleteAdminJob(w, job.id) }

updateScheduleFoundDeleteFirst(w, ajr, job) ==
    UNION { IF d.err
            THEN { Handle(d.w, StatusInternalServerError) }
            ELSE UNION { IF p.err \notin {"nil", "http404"}
                         THEN { Handle(p.w, StatusInternalServerError) }
                         ELSE IF ajr.schedule.type # ScheduleNone
                         THEN submit(p.w, ajr)
                         ELSE { p.w }
                         : p \in PostActionStop(d.w, job.uuid) }
            : d \in DeleteAdminJob(w, job.id) }

updateScheduleFoundLenient(w, ajr, job) ==
    UNION { updateScheduleReplace(p.w, ajr, job) : p \in PostActionStop(w, job.uuid) }

updateScheduleFoundStrict(w, ajr, job) ==
    UNION { IF p.err # "nil"
            THEN { Handle(p.w, StatusInternalServerError) }
            ELSE updateScheduleReplace(p.w, ajr, job)
            : p \in PostActionStop(w, job.uuid) }

updateScheduleFound(w, ajr, job) ==
    UNION { IF p.err \notin {"nil", "http404"}
            THEN { Handle(p.w, StatusInternalServerError) }
            ELSE updateScheduleReplace(p.w, ajr, job)
            : p \in PostActionStop(w, job.uuid) }

updateScheduleAnyFound(w, ajr) ==
    IF ajr.schedule.type = ScheduleManual
    THEN { Handle(w, StatusInternalServerError) }
    ELSE UNION { IF r.err
                 THEN { Handle(r.w, StatusInternalServerError) }
                 ELSE IF Cardinality(r.jobs) = 0
                 THEN { Handle(r.w, StatusInternalServerError) }
                 ELSE updateScheduleFound(r.w, ajr, CHOOSE j \in r.jobs : TRUE)
                 : r \in GetAdminJobs(w, ajr.name, JobKindPeriodic) }

updateSchedule(w, ajr) ==
    IF ajr.schedule.type = ScheduleManual
    THEN { Handle(w, StatusInternalServerError) }
    ELSE UNION { IF r.err
                 THEN { Handle(r.w, StatusInternalServerError) }
                 ELSE IF Cardinality(r.jobs) # 1
                 THEN { Handle(r.w, StatusInternalServerError) }
                 ELSE updateScheduleFound(r.w, ajr, CHOOSE j \in r.jobs : TRUE)
                 : r \in GetAdminJobs(w, ajr.name, JobKindPeriodic) }

----------------------------------------------------------------------------
(* src/pkg/scan/job.go: the parameters of the scan job *)

JobParamRegistration == "registration"
JobParameterRequest == "scanRequest"
JobParameterMimes == "mimeTypes"

\* time in seconds
checkTimeout == 30 * 60
firstCheckInterval == 2

\* A JSON text is the sequence of its tokens: "{", then keys and values in
\* turn, then "}". A text cut short is malformed.
JSONObject(fields) ==
    <<"{">>
    \o [k \in 1..(2 * Len(fields)) |-> fields[(k + 1) \div 2][2 - (k % 2)]]
    \o <<"}">>

JSONWellFormed(text) ==
    /\ Len(text) >= 2
    /\ Len(text) % 2 = 0
    /\ text[1] = "{"
    /\ text[Len(text)] = "}"

\* the value decoded for a key: the zero value when the text lacks the key
JSONField(text, key) ==
    LET at == { i \in 1..((Len(text) - 2) \div 2) : text[2 * i] = key }
    IN IF at = {} THEN ""
       ELSE text[2 * (CHOOSE i \in at : \A k \in at : k <= i) + 1]

\* scanner.Registration: FromJSON, Validate(true)
RegistrationFromJSON(text) ==
    [ err |-> ~JSONWellFormed(text),
      val |-> [ uuid |-> JSONField(text, "uuid"), url |-> JSONField(text, "url") ] ]

RegistrationValidate(r) == r.uuid # "" /\ r.url # ""

\* v1.ScanRequest: FromJSON, Validate
ScanRequestFromJSON(text) ==
    [ err |-> ~JSONWellFormed(text),
      val |-> [ artifact |-> [ repository |-> JSONField(text, "artifact.repository"),
                               digest |-> JSONField(text, "artifact.digest") ],
                registry |-> [ url |-> JSONField(text, "registry.url"),
                               authorization |-> JSONField(text, "registry.authorization") ] ] ]

ScanRequestValidate(req) ==
    /\ req.registry.url # ""
    /\ req.artifact.repository # ""
    /\ req.artifact.digest # ""

\* job.Parameters: nil, or a map from keys to values; a value is a string, a
\* list ([]interface{}) or of another type
NilParams == [nil |-> TRUE, m |-> <<>>]
StringValue(s) == [t |-> "string", v |-> s]
ListValue(l) == [t |-> "[]interface{}", v |-> l]
IntValue == [t |-> "int", v |-> <<>>]

HasParam(params, key) == ~params.nil /\ key \in DOMAIN params.m

extractRegistration(params) ==
    IF ~HasParam(params, JobParamRegistration)
    THEN [err |-> <<"missing job parameter", JobParamRegistration>>, val |-> <<>>]
    ELSE LET v == params.m[JobParamRegistration] IN
         IF v.t # "string"
         THEN [err |-> <<"malformed job parameter", JobParamRegistration>>, val |-> <<>>]
         ELSE LET r == RegistrationFromJSON(v.v) IN
              IF r.err THEN [err |-> <<"invalid JSON">>, val |-> <<>>]
              ELSE IF ~RegistrationValidate(r.val)
              THEN [err |-> <<"invalid registration">>, val |-> <<>>]
              ELSE [err |-> <<>>, val |-> r.val]

ExtractScanReq(params) ==
    IF ~HasParam(params, JobParameterRequest)
    THEN [err |-> <<"missing job parameter", JobParameterRequest>>, val |-> <<>>]
    ELSE LET v == params.m[JobParameterRequest] IN
         IF v.t # "string"
         THEN [err |-> <<"malformed job parameter", JobParameterRequest>>, val |-> <<>>]
         ELSE LET r == ScanRequestFromJSON(v.v) IN
              IF r.err THEN [err |-> <<"invalid JSON">>, val |-> <<>>]
              ELSE IF ~ScanRequestValidate(r.val)
              THEN [err |-> <<"invalid scan request">>, val |-> <<>>]
              ELSE [err |-> <<>>, val |-> r.val]

\* the loop over the list: the strings so far, or the error at the first
\* element that is no string
RECURSIVE mimesOf(_)
mimesOf(l) ==
    IF l = <<>> THEN [err |-> <<>>, val |-> <<>>]
    ELSE IF Head(l).t # "string"
    THEN [err |-> <<"expect string but got", Head(l).t>>, val |-> <<>>]
    ELSE LET rest == mimesOf(Tail(l)) IN
         IF rest.err # <<>> THEN rest
         ELSE [err |-> <<>>, val |-> <<Head(l).v>> \o rest.val]

extractMimeTypesUnchecked(params) ==
    IF ~HasParam(params, JobParameterMimes)
    THEN [err |-> <<"missing job parameter", JobParameterMimes>>, val |-> <<>>]
    ELSE LET v == params.m[JobParameterMimes] IN
         IF v.t # "[]interface{}"
         THEN [err |-> <<"malformed job parameter", JobParameterMimes>>, val |-> <<>>]
         ELSE [err |-> <<>>, val |-> [i \in 1..Len(v.v) |-> v.v[i].v]]

extractMimeTypes(params) ==
    IF ~HasParam(params, JobParameterMimes)
    THEN [err |-> <<"missing job parameter", JobParameterMimes>>, val |-> <<>>]
    ELSE LET v == params.m[JobParameterMimes] IN
         IF v.t # "[]interface{}"
         THEN [err |-> <<"malformed job parameter", JobParameterMimes>>, val |-> <<>>]
         ELSE mimesOf(v.v)

\* errors.Wrap(err, message): the message, then the error wrapped
NoErr == <<>>
Wrap(err, message) == message \o err

\* Job.Validate: the error it returns
ValidateParams(params) ==
    IF params.nil THEN <<"missing parameter of scan job">>
    ELSE IF extractRegistration(params).err # NoErr
    THEN Wrap(extractRegistration(params).err, <<"job validate">>)
    ELSE IF ExtractScanReq(params).err # NoErr
    THEN Wrap(ExtractScanReq(params).err, <<"job validate">>)
    ELSE IF extractMimeTypes(params).err # NoErr
    THEN Wrap(extractMimeTypes(params).err, <<"job validate">>)
    ELSE NoErr

----------------------------------------------------------------------------
(* AJAPI.getSchedule and AJAPI.getLog *)

StatusNotFound == 404

\* a schedule that may be nil: <<>>, or the schedule alone
NilSchedule == <<>>

\* convertToAdminJobRep: the schedule decoded from the Cron column
convertToAdminJobRepNoSchedule(job) == [err |-> FALSE, schedule |-> NilSchedule]

convertToAdminJobRep(job) ==
    IF Len(job.cron) > 0
    THEN IF ~JSONWellFormed(job.cron)
         THEN [err |-> TRUE, schedule |-> NilSchedule]
         ELSE [err |-> FALSE,
               schedule |-> << [ type |-> JSONField(job.cron, "type"),
                                 cron |-> JSONField(job.cron, "cron") ] >>]
    ELSE [err |-> FALSE, schedule |-> NilSchedule]

\* aj.Data["json"] = ...; aj.ServeJSON()
ServeJSON(w, name, body) == Call(w, "ServeJSON", name, body)

getSchedule(w, name) ==
    { IF r.err
      THEN Handle(r.w, StatusInternalServerError)
      ELSE IF Cardinality(r.jobs) > 1
      THEN Handle(r.w, StatusInternalServerError)
      ELSE IF Cardinality(r.jobs) # 0
      THEN LET rp == convertToAdminJobRep(CHOOSE j \in r.jobs : TRUE) IN
           IF rp.err THEN Handle(r.w, StatusInternalServerError)
           ELSE ServeJSON(r.w, name, rp.schedule)
      ELSE ServeJSON(r.w, name, NilSchedule)
      : r \in GetAdminJobs(w, name, JobKindPeriodic) }

\* dao.GetAdminJob(id): the record, nil when there is none, or an error
GetAdminJob(w, id) ==
    { [ err |-> TRUE, found |-> {}, w |-> Call(w, "GetAdminJob", id, "err") ],
      [ err |-> FALSE, found |-> { j \in w.jobs : j.id = id },
        w |-> Call(w, "GetAdminJob", id, "ok") ] }

\* GetJobServiceClient().GetJobLog(uuid): the log, an http error with its
\* code, or an error that is no http error
GetJobLog(w, uuid) ==
    { [ err |-> "nil", code |-> 0, w |-> Call(w, "GetJobLog", uuid, "nil") ],
      [ err |-> "http", code |-> 404, w |-> Call(w, "GetJobLog", uuid, "http404") ],
      [ err |-> "http", code |-> 401, w |-> Call(w, "GetJobLog", uuid, "http401") ],
      [ err |-> "http", code |-> 500, w |-> Call(w, "GetJobLog", uuid, "http500") ],
      [ err |-> "other", code |-> 0, w |-> Call(w, "GetJobLog", uuid, "other") ] }

\* aj.Ctx.ResponseWriter.Write(logBytes)
WriteLog(w, uuid) ==
    { Call(w, "Write", uuid, "ok"),
      Handle(Call(w, "Write", uuid, "err"), StatusInternalServerError) }

\* from GetJobLog to the end
getLogOfAll500(w, job) ==
    UNION { IF g.err # "nil" THEN { Handle(g.w, StatusInternalServerError) }
            ELSE WriteLog(g.w, job.uuid)
            : g \in GetJobLog(w, job.uuid) }

getLogOf(w, job) ==
    UNION { IF g.err = "http" THEN { Handle(g.w, g.code) }
            ELSE IF g.err = "other" THEN { Handle(g.w, StatusInternalServerError) }
            ELSE WriteLog(g.w, job.uuid)
            : g \in GetJobLog(w, job.uuid) }

getLog(w, id) ==
    UNION { IF r.err THEN { Handle(r.w, StatusInternalServerError) }
            ELSE IF r.found = {} THEN { Handle(r.w, StatusNotFound) }
            ELSE getLogOf(r.w, CHOOSE j \in r.found : TRUE)
            : r \in GetAdminJob(w, id) }

----------------------------------------------------------------------------
(* The inputs of the scan job *)

\* the longest list of mime types
MaxMimes == 2

\* the report requests the pollers of one run make in all
MaxPolls == 3

MimeTypes == {"application/vnd.report.v1", "application/vnd.report.v2"}

\* the delays, in seconds, the scanner asks for with a not-ready answer
RetryAfters == {600, 1000, 2000}

RegistrationTexts ==
    { JSONObject(<< <<"uuid", "reg-uuid">>, <<"url", "http://scanner">> >>),
      JSONObject(<< <<"url", "http://scanner">> >>),
      <<"{", "uuid">> }

ScanRequestTexts ==
    { JSONObject(<< <<"artifact.repository", "library/app">>,
                    <<"artifact.digest", "sha256:abc">>,
                    <<"registry.url", "http://core">>,
                    <<"registry.authorization", "Bearer secret">> >>),
      JSONObject(<< <<"artifact.repository", "library/app">>,
                    <<"registry.url", "http://core">>,
                    <<"registry.authorization", "Bearer secret">> >>),
      <<"{", "artifact.digest">> }

SeqsUpTo(S, n) == UNION { [1..k -> S] : k \in 0..n }

ListElements == { StringValue(m) : m \in MimeTypes } \cup { IntValue }

RegistrationValues == { StringValue(t) : t \in RegistrationTexts } \cup { IntValue }
ScanRequestValues == { StringValue(t) : t \in ScanRequestTexts } \cup { IntValue }
MimesValues ==
    { ListValue(l) : l \in SeqsUpTo(ListElements, MaxMimes) }
    \cup { StringValue(<<"application/vnd.report.v1">>) }

ParamKeys == {JobParamRegistration, JobParameterRequest, JobParameterMimes}

ParamValues(k) ==
    IF k = JobParamRegistration THEN RegistrationValues
    ELSE IF k = JobParameterRequest THEN ScanRequestValues
    ELSE MimesValues

\* every parameter mapping: nil, or any of the keys with any of its values
AllParams ==
    { NilParams } \cup
    UNION { { [nil |-> FALSE, m |-> f] :
              f \in { g \in [D -> UNION { ParamValues(k) : k \in D }] :
                      \A k \in D : g[k] \in ParamValues(k) } }
            : D \in SUBSET ParamKeys }

\* the mappings Validate accepts
ValidParams == { p \in AllParams : ValidateParams(p) = NoErr }

----------------------------------------------------------------------------
(* Job.Run: the scanner, the pollers and the join *)

GetScanReportAnswers ==
    { [kind |-> "notReady", retryAfter |-> r, raw |-> ""] : r \in RetryAfters }
    \cup { [kind |-> "error", retryAfter |-> 0, raw |-> ""] }
    \cup { [kind |-> "report", retryAfter |-> 0, raw |-> f] : f \in MimeTypes \cup {"garbage"} }

\* report.ResolveData(mime, raw): whether the raw report is one of that mime type
ResolveData(m, raw) == raw = m

\* CheckInReport.ToJSON
ToJSON(cir) ==
    JSONObject(<< <<"digest", cir.Digest>>, <<"registration_uuid", cir.RegistrationUUID>>,
                  <<"mime_type", cir.MimeType>>, <<"raw_report", cir.RawReport>> >>)

\* v1.ScanRequest.ToJSON
ScanRequestToJSON(req) ==
    JSONObject(<< <<"artifact.repository", req.artifact.repository>>,
                  <<"artifact.digest", req.artifact.digest>>,
                  <<"registry.url", req.registry.url>>,
                  <<"registry.authorization", req.registry.authorization>> >>)

removeAuthInfoVerbatim(sr) == ScanRequestToJSON(sr)

removeAuthInfo(sr) ==
    ScanRequestToJSON([ artifact |-> sr.artifact,
                        registry |-> [ url |-> sr.registry.url,
                                       authorization |-> "[HIDDEN]" ] ])

\* printJSONParameter, printPrettyJSON: json.Indent keeps the tokens of a
\* well-formed text
printJSONParameter(parameter, v) ==
    { <<"info", parameter>>,
      IF JSONWellFormed(v) THEN <<"info">> \o v ELSE <<"error", "Print pretty JSON error">> }

\* A log line is its level, then its words. The lines Run logs before it submits the scan, and one line per poller
RunLogStart(params) ==
    printJSONParameter(JobParamRegistration, params.m[JobParamRegistration].v)
    \cup printJSONParameter(JobParameterRequest, removeAuthInfo(ExtractScanReq(params).val))
    \cup { <<"info", "Report mime types">> \o extractMimeTypes(params).val }

RunLogPollers(params) ==
    { <<"info", "Get report for mime type", extractMimeTypes(params).val[i]>>
      : i \in 1..Len(extractMimeTypes(params).val) }

\* the lines a poller logs
RunLogTick(params, i) == <<"debug", "check scan report for mime", extractMimeTypes(params).val[i]>>

RunLogNotReady(params, i, retryAfter) ==
    <<"info", "Report with mime type", extractMimeTypes(params).val[i],
      "is not ready yet, retry after", ToString(retryAfter)>>

RunLogCheckedIn(params, i) ==
    <<"info", "Report with mime type", extractMimeTypes(params).val[i], "is checked in">>

\* the same parameters with another registry credential in the scan request
Twin(params) ==
    [params EXCEPT !.m[JobParameterRequest] =
        StringValue(ScanRequestToJSON(
            [ExtractScanReq(params).val EXCEPT !.registry.authorization = "Basic other"]))]

Logged(own, twin) ==
    /\ jobLog' = jobLog \cup own
    /\ twinLog' = twinLog \cup twin

Mimes == extractMimeTypes(jobParams).val
NumWorkers == Len(workers)

NewWorker ==
    [ pc |-> "select", tm |-> firstCheckInterval, to |-> checkTimeout,
      hint |-> firstCheckInterval, waited |-> 0, age |-> 0, polls |-> 0,
      reqHint |-> 0, reqWaited |-> 0, raw |-> "", gotValid |-> FALSE,
      ans |-> "", exit |-> "" ]

\* a poller that returned: its timer is stopped (defer tm.Stop()); ans is the
\* scanner's latest answer to the poller and exit the return it left by
Returned(w) == [w EXCEPT !.pc = "done", !.tm = 0, !.to = 0, !.hint = 0, !.waited = 0,
                         !.age = 0, !.raw = ""]

\* the report requests made so far
RECURSIVE SumPolls(_)
SumPolls(ws) == IF ws = <<>> THEN 0 ELSE Head(ws).polls + SumPolls(Tail(ws))

\* tm.Reset(RetryAfter seconds), continue: back to the select, where
\* time.After(checkTimeout) starts a new timeout
notReadyFixedInterval(w, retryAfter) ==
    [w EXCEPT !.tm = firstCheckInterval, !.to = checkTimeout,
              !.hint = retryAfter, !.waited = 0]

notReady(w, retryAfter) ==
    [w EXCEPT !.tm = retryAfter, !.to = checkTimeout,
              !.hint = retryAfter, !.waited = 0]

RECURSIVE mergeErrorsLast(_, _)
mergeErrorsLast(es, err) ==
    IF es = <<>> THEN err
    ELSE IF Head(es) # NoErr
    THEN mergeErrorsLast(Tail(es), Head(es))
    ELSE mergeErrorsLast(Tail(es), err)

mergeErrorsEmptyFails(es, err) ==
    IF es = <<>> THEN <<"no report requested">> ELSE mergeErrorsLast(es, err)

\* the merge of the error slots, in slot order
RECURSIVE mergeErrors(_, _)
mergeErrors(es, err) ==
    IF es = <<>> THEN err
    ELSE IF Head(es) # NoErr
    THEN mergeErrors(Tail(es), IF err # NoErr THEN Wrap(Head(es), err) ELSE Head(es))
    ELSE mergeErrors(Tail(es), err)

ScanIdle ==
    /\ validateResult = "none"
    /\ runPc = "idle"
    /\ runErr = NoErr
    /\ workers = <<>>
    /\ errs = <<>>
    /\ cancelled = FALSE
    /\ scanCalls = [getClient |-> 0, submitScan |-> 0, failed |-> ""]
    /\ checkins = <<>>
    /\ jobLog = {}
    /\ twinLog = {}

\* Job.Validate
Validate ==
    /\ runPc = "idle"
    /\ validateResult = "none"
    /\ validateResult' = (IF ValidateParams(jobParams) = NoErr THEN "ok" ELSE "err")
    /\ UNCHANGED <<jobParams, runPc, runErr, workers, errs, cancelled, scanCalls, checkins,
                   jobLog, twinLog>>
    /\ UNCHANGED <<adminVars, procs>>

RunStartPollsAnyway ==
    /\ runPc = "idle"
    /\ validateResult = "ok"
    /\ \E client \in {"ok", "err"}, submitted \in {"ok", "err"} :
          IF client = "err"
          THEN /\ runPc' = "done"
               /\ runErr' = Wrap(<<"no client">>, <<"scan job: get client">>)
               /\ scanCalls' = [scanCalls EXCEPT !.getClient = @ + 1, !.failed = "getClient"]
               /\ UNCHANGED <<workers, errs, checkins>>
          ELSE IF submitted = "err"
          THEN /\ runPc' = "polling"
               /\ runErr' = NoErr
               /\ scanCalls' = [scanCalls EXCEPT !.getClient = @ + 1, !.submitScan = @ + 1,
                                                 !.failed = "submitScan"]
               /\ workers' = [i \in 1..Len(Mimes) |-> NewWorker]
               /\ errs' = [i \in 1..Len(Mimes) |-> NoErr]
               /\ checkins' = [i \in 1..Len(Mimes) |-> <<>>]
          ELSE /\ runPc' = "polling"
               /\ runErr' = NoErr
               /\ scanCalls' = [scanCalls EXCEPT !.getClient = @ + 1, !.submitScan = @ + 1]
               /\ workers' = [i \in 1..Len(Mimes) |-> NewWorker]
               /\ errs' = [i \in 1..Len(Mimes) |-> NoErr]
               /\ checkins' = [i \in 1..Len(Mimes) |-> <<>>]
    /\ \E twin \in { Twin(jobParams) } :
          Logged(RunLogStart(jobParams)
                   \cup (IF runPc' = "polling" THEN RunLogPollers(jobParams)
                         ELSE { <<"error">> \o runErr' }),
                 RunLogStart(twin)
                   \cup (IF runPc' = "polling" THEN RunLogPollers(twin)
                         ELSE { <<"error">> \o runErr' }))
    /\ UNCHANGED <<jobParams, validateResult, cancelled>>
    /\ UNCHANGED <<adminVars, procs>>

\* Job.Run up to the start of the pollers: the client, the scan request
RunStart ==
    /\ runPc = "idle"
    /\ validateResult = "ok"
    /\ \E client \in {"ok", "err"}, submitted \in {"ok", "err"} :
          IF client = "err"
          THEN /\ runPc' = "done"
               /\ runErr' = Wrap(<<"no client">>, <<"scan job: get client">>)
               /\ scanCalls' = [scanCalls EXCEPT !.getClient = @ + 1, !.failed = "getClient"]
               /\ UNCHANGED <<workers, errs, checkins>>
          ELSE IF submitted = "err"
          THEN /\ runPc' = "done"
               /\ runErr' = Wrap(<<"scan refused">>, <<"scan job: submit scan request">>)
               /\ scanCalls' = [scanCalls EXCEPT !.getClient = @ + 1, !.submitScan = @ + 1,
                                                 !.failed = "submitScan"]
               /\ UNCHANGED <<workers, errs, checkins>>
          ELSE /\ runPc' = "polling"
               /\ runErr' = NoErr
               /\ scanCalls' = [scanCalls EXCEPT !.getClient = @ + 1, !.submitScan = @ + 1]
               /\ workers' = [i \in 1..Len(Mimes) |-> NewWorker]
               /\ errs' = [i \in 1..Len(Mimes) |-> NoErr]
               /\ checkins' = [i \in 1..Len(Mimes) |-> <<>>]
    /\ \E twin \in { Twin(jobParams) } :
          Logged(RunLogStart(jobParams)
                   \cup (IF runPc' = "polling" THEN RunLogPollers(jobParams)
                         ELSE { <<"error">> \o runErr' }),
                 RunLogStart(twin)
                   \cup (IF runPc' = "polling" THEN RunLogPollers(twin)
                         ELSE { <<"error">> \o runErr' }))
    /\ UNCHANGED <<jobParams, validateResult, cancelled>>
    /\ UNCHANGED <<adminVars, procs>>

\* how the poller takes the answer of GetScanReport: err != nil and the type
\* assertion err.(*v1.ReportNotReadyError)
AnswerKindNoRetry(a) == IF a.kind = "notReady" THEN "error" ELSE a.kind

AnswerKindRetryAll(a) == IF a.kind = "error" THEN "notReady" ELSE a.kind

AnswerKind(a) == a.kind

\* case t := <-tm.C: the report request and the scanner's answer a, for the
\* poller as w when it makes the request
PollAnswer(i, w, a) ==
    /\ IF AnswerKind(a) = "notReady"
       THEN /\ workers' = [workers EXCEPT ![i] = notReady(w, a.retryAfter)]
            /\ UNCHANGED errs
            /\ \E twin \in { Twin(jobParams) } :
                  Logged({ RunLogTick(jobParams, i),
                           RunLogNotReady(jobParams, i, a.retryAfter) },
                         { RunLogTick(twin, i), RunLogNotReady(twin, i, a.retryAfter) })
       ELSE /\ \E twin \in { Twin(jobParams) } :
                  Logged({ RunLogTick(jobParams, i) }, { RunLogTick(twin, i) })
            /\ IF AnswerKind(a) = "error"
               THEN /\ workers' = [workers EXCEPT ![i] = [Returned(w) EXCEPT !.exit = "error"]]
                    /\ errs' = [errs EXCEPT ![i] =
                          Wrap(<<"scanner error">>, <<"check scan report with mime type", Mimes[i]>>)]
               ELSE /\ workers' = [workers EXCEPT ![i] =
                          [w EXCEPT !.pc = "report", !.raw = a.raw, !.tm = 0, !.to = 0,
                                    !.hint = 0, !.waited = 0, !.age = 0,
                                    !.gotValid = ResolveData(Mimes[i], a.raw)]]
                    /\ UNCHANGED errs
    /\ UNCHANGED <<jobParams, validateResult, runPc, runErr, cancelled, scanCalls, checkins>>
    /\ UNCHANGED <<adminVars, procs>>

PollTick(i) ==
    /\ runPc = "polling"
    /\ workers[i].pc = "select"
    /\ workers[i].tm = 0
    /\ SumPolls(workers) < MaxPolls
    /\ \E a \in GetScanReportAnswers :
          PollAnswer(i, [workers[i] EXCEPT !.polls = @ + 1, !.reqHint = workers[i].hint,
                                          !.reqWaited = workers[i].waited,
                                          !.ans = a.kind], a)

\* the requests made after the first MaxPolls: made and answered alike, no
\* longer counted
PollTickOver(i) ==
    /\ runPc = "polling"
    /\ workers[i].pc = "select"
    /\ workers[i].tm = 0
    /\ SumPolls(workers) >= MaxPolls
    /\ \E a \in GetScanReportAnswers :
          PollAnswer(i, [workers[i] EXCEPT !.reqHint = workers[i].hint,
                                          !.reqWaited = workers[i].waited,
                                          !.ans = a.kind], a)

PollCheckinRetried(i) ==
    /\ runPc = "polling"
    /\ workers[i].pc = "report"
    /\ IF ~ResolveData(Mimes[i], workers[i].raw)
       THEN /\ errs' = [errs EXCEPT ![i] =
                  Wrap(<<"unexpected report">>, <<"scan job: resolve report data">>)]
            /\ workers' = [workers EXCEPT ![i] = [Returned(@) EXCEPT !.exit = "resolve"]]
            /\ UNCHANGED <<checkins, jobLog, twinLog>>
       ELSE LET cir == [ Digest |-> ExtractScanReq(jobParams).val.artifact.digest,
                         RegistrationUUID |-> extractRegistration(jobParams).val.uuid,
                         MimeType |-> Mimes[i],
                         RawReport |-> workers[i].raw ]
            IN \E er \in {"nil", "err"} :
                  /\ checkins' = [checkins EXCEPT ![i] =
                        Append(@, [json |-> ToJSON(cir), er |-> er])]
                  /\ IF er = "nil"
                     THEN /\ workers' = [workers EXCEPT ![i] =
                                [Returned(@) EXCEPT !.exit = "checkedIn"]]
                          /\ UNCHANGED errs
                          /\ \E twin \in { Twin(jobParams) } :
                                Logged({ RunLogCheckedIn(jobParams, i) },
                                       { RunLogCheckedIn(twin, i) })
                     ELSE /\ Len(checkins[i]) < 2
                          /\ UNCHANGED <<workers, errs, jobLog, twinLog>>
    /\ UNCHANGED <<jobParams, validateResult, runPc, runErr, cancelled, scanCalls>>
    /\ UNCHANGED <<adminVars, procs>>

PollCheckinUnresolved(i) ==
    /\ runPc = "polling"
    /\ workers[i].pc = "report"
    /\ LET cir == [ Digest |-> ExtractScanReq(jobParams).val.artifact.digest,
                    RegistrationUUID |-> extractRegistration(jobParams).val.uuid,
                    MimeType |-> Mimes[i],
                    RawReport |-> workers[i].raw ]
       IN \E er \in {"nil", "err"} :
             /\ checkins' = [checkins EXCEPT ![i] =
                   Append(@, [json |-> ToJSON(cir), er |-> er])]
             /\ workers' = [workers EXCEPT ![i] =
                   [Returned(@) EXCEPT !.exit = IF er = "nil" THEN "checkedIn"
                                                ELSE "checkInFailed"]]
             /\ IF er = "nil"
                THEN /\ UNCHANGED errs
                     /\ \E twin \in { Twin(jobParams) } :
                           Logged({ RunLogCheckedIn(jobParams, i) },
                                  { RunLogCheckedIn(twin, i) })
                ELSE /\ errs' = [errs EXCEPT ![i] =
                           Wrap(<<"check in failed">>,
                                <<"check in scan report for mime type", Mimes[i]>>)]
                     /\ UNCHANGED <<jobLog, twinLog>>
    /\ UNCHANGED <<jobParams, validateResult, runPc, runErr, cancelled, scanCalls>>
    /\ UNCHANGED <<adminVars, procs>>

\* the rest of the case: report.ResolveData, then the check-in
PollCheckin(i) ==
    /\ runPc = "polling"
    /\ workers[i].pc = "report"
    /\ IF ~ResolveData(Mimes[i], workers[i].raw)
       THEN /\ errs' = [errs EXCEPT ![i] =
                  Wrap(<<"unexpected report">>, <<"scan job: resolve report data">>)]
            /\ workers' = [workers EXCEPT ![i] = [Returned(@) EXCEPT !.exit = "resolve"]]
            /\ UNCHANGED <<checkins, jobLog, twinLog>>
       ELSE LET cir == [ Digest |-> ExtractScanReq(jobParams).val.artifact.digest,
                         RegistrationUUID |-> extractRegistration(jobParams).val.uuid,
                         MimeType |-> Mimes[i],
                         RawReport |-> workers[i].raw ]
            IN \E er \in {"nil", "err"} :
                  /\ checkins' = [checkins EXCEPT ![i] =
                        Append(@, [json |-> ToJSON(cir), er |-> er])]
                  /\ workers' = [workers EXCEPT ![i] =
                        [Returned(@) EXCEPT !.exit = IF er = "nil" THEN "checkedIn"
                                                     ELSE "checkInFailed"]]
                  /\ IF er = "nil"
                     THEN /\ UNCHANGED errs
                          /\ \E twin \in { Twin(jobParams) } :
                                Logged({ RunLogCheckedIn(jobParams, i) },
                                       { RunLogCheckedIn(twin, i) })
                     ELSE /\ errs' = [errs EXCEPT ![i] =
                                Wrap(<<"check in failed">>,
                                     <<"check in scan report for mime type", Mimes[i]>>)]
                          /\ UNCHANGED <<jobLog, twinLog>>
    /\ UNCHANGED <<jobParams, validateResult, runPc, runErr, cancelled, scanCalls>>
    /\ UNCHANGED <<adminVars, procs>>

PollCancelRecords(i) ==
    /\ runPc = "polling"
    /\ workers[i].pc = "select"
    /\ cancelled
    /\ workers' = [workers EXCEPT ![i] = [Returned(@) EXCEPT !.exit = "cancel"]]
    /\ errs' = [errs EXCEPT ![i] = <<"context canceled">>]
    /\ UNCHANGED <<jobParams, validateResult, runPc, runErr, cancelled, scanCalls, checkins,
                   jobLog, twinLog>>
    /\ UNCHANGED <<adminVars, procs>>

\* case <-ctx.SystemContext().Done()
PollCancel(i) ==
    /\ runPc = "polling"
    /\ workers[i].pc = "select"
    /\ cancelled
    /\ workers' = [workers EXCEPT ![i] = [Returned(@) EXCEPT !.exit = "cancel"]]
    /\ UNCHANGED <<jobParams, validateResult, runPc, runErr, errs, cancelled, scanCalls, checkins,
                   jobLog, twinLog>>
    /\ UNCHANGED <<adminVars, procs>>

PollTimeoutSharedSlot(i) ==
    /\ runPc = "polling"
    /\ workers[i].pc = "select"
    /\ workers[i].to = 0
    /\ workers' = [workers EXCEPT ![i] = [Returned(@) EXCEPT !.exit = "timeout"]]
    /\ errs' = [errs EXCEPT ![1] = <<"check scan report timeout">>]
    /\ UNCHANGED <<jobParams, validateResult, runPc, runErr, cancelled, scanCalls, checkins,
                   jobLog, twinLog>>
    /\ UNCHANGED <<adminVars, procs>>

\* case <-time.After(checkTimeout)
PollTimeout(i) ==
    /\ runPc = "polling"
    /\ workers[i].pc = "select"
    /\ workers[i].to = 0
    /\ workers' = [workers EXCEPT ![i] = [Returned(@) EXCEPT !.exit = "timeout"]]
    /\ errs' = [errs EXCEPT ![i] = <<"check scan report timeout">>]
    /\ UNCHANGED <<jobParams, validateResult, runPc, runErr, cancelled, scanCalls, checkins,
                   jobLog, twinLog>>
    /\ UNCHANGED <<adminVars, procs>>

\* the system context is cancelled
Cancel ==
    /\ runPc = "polling"
    /\ ~cancelled
    /\ cancelled' = TRUE
    /\ UNCHANGED <<jobParams, validateResult, runPc, runErr, workers, errs, scanCalls, checkins,
                   jobLog, twinLog>>
    /\ UNCHANGED <<adminVars, procs>>

\* time passes, up to the next timer or timeout of a poller in its select
Waiting == { i \in 1..NumWorkers : workers[i].pc = "select" }

Min(S) == CHOOSE x \in S : \A y \in S : x <= y

Advance ==
    /\ runPc = "polling"
    /\ Waiting # {}
    /\ \A i \in Waiting : workers[i].tm > 0 /\ workers[i].to > 0
    /\ LET d == Min({ workers[i].tm : i \in Waiting } \cup { workers[i].to : i \in Waiting })
       IN workers' = [i \in 1..NumWorkers |->
                        IF i \in Waiting
                        THEN [workers[i] EXCEPT !.tm = @ - d, !.to = @ - d, !.waited = @ + d,
                                                !.age = Min({@ + d, checkTimeout + 1})]
                        ELSE workers[i]]
    /\ UNCHANGED <<jobParams, validateResult, runPc, runErr, errs, cancelled, scanCalls, checkins,
                   jobLog, twinLog>>
    /\ UNCHANGED <<adminVars, procs>>

\* wg.Wait(), the merge of the errors, return
RunJoinOnFirstError ==
    /\ runPc = "polling"
    /\ \/ \A i \in 1..NumWorkers : workers[i].pc = "done"
       \/ \E i \in 1..NumWorkers : errs[i] # NoErr
    /\ runPc' = "done"
    /\ runErr' = mergeErrors(errs, NoErr)
    /\ IF runErr' # NoErr
       THEN Logged({ <<"error">> \o runErr' }, { <<"error">> \o runErr' })
       ELSE UNCHANGED <<jobLog, twinLog>>
    /\ UNCHANGED <<jobParams, validateResult, workers, errs, cancelled, scanCalls, checkins>>
    /\ UNCHANGED <<adminVars, procs>>

RunJoin ==
    /\ runPc = "polling"
    /\ \A i \in 1..NumWorkers : workers[i].pc = "done"
    /\ runPc' = "done"
    /\ runErr' = mergeErrors(errs, NoErr)
    /\ IF runErr' # NoErr
       THEN Logged({ <<"error">> \o runErr' }, { <<"error">> \o runErr' })
       ELSE UNCHANGED <<jobLog, twinLog>>
    /\ UNCHANGED <<jobParams, validateResult, workers, errs, cancelled, scanCalls, checkins>>
    /\ UNCHANGED <<adminVars, procs>>

----------------------------------------------------------------------------
(* Requests handled one at a time *)

Fresh(w) == [w EXCEPT !.calls = <<>>, !.resp = StatusOK]

SetWorld(w) ==
    /\ adminJobs' = w.jobs
    /\ nextID' = w.nextID
    /\ jsJobs' = w.js
    /\ nextUUID' = w.nextUUID
    /\ calls' = w.calls
    /\ resp' = w.resp

NoReq == [name |-> "", schedule |-> [type |-> "", cron |-> ""]]

InitAdmin ==
    /\ adminJobs = {}
    /\ nextID = 1
    /\ jsJobs = {}
    /\ nextUUID = 1
    /\ calls = <<>>
    /\ resp = StatusOK
    /\ last = [op |-> "none", ajr |-> NoReq]

InitProcs == procs = [p \in 1..NumProcs |-> [pc |-> "idle", ajr |-> NoReq, resp |-> StatusOK]]

Init == InitAdmin /\ InitProcs /\ jobParams = NilParams /\ ScanIdle

Submit ==
    /\ nextID <= MaxID
    /\ \E ajr \in AdminJobReqs :
          /\ \E w \in submit(Fresh(World), ajr) : SetWorld(w)
          /\ last' = [op |-> "submit", ajr |-> ajr]
    /\ UNCHANGED <<procs, scanVars>>

UpdateSchedule ==
    /\ nextID <= MaxID
    /\ \E ajr \in AdminJobReqs :
          /\ \E w \in updateSchedule(Fresh(World), ajr) : SetWorld(w)
          /\ last' = [op |-> "updateSchedule", ajr |-> ajr]
    /\ UNCHANGED <<procs, scanVars>>

\* the job service loses a job on its own (it ended, or its data expired)
JobServiceForget ==
    /\ \E j \in jsJobs : jsJobs' = jsJobs \ {j}
    /\ calls' = <<>>
    /\ resp' = StatusOK
    /\ last' = [op |-> "forget", ajr |-> NoReq]
    /\ UNCHANGED <<adminJobs, nextID, nextUUID, procs, scanVars>>

Next == Submit \/ UpdateSchedule \/ JobServiceForget

Spec == Init /\ [][Next]_vars

----------------------------------------------------------------------------
(* Concurrent submit requests: each request runs submit once, and another  *)
(* request can run between its uniqueness check and its AddAdminJob        *)

CSubmitCheck(p) ==
    /\ procs[p].pc = "idle"
    /\ \E ajr \in AdminJobReqs :
          /\ \E c \in submitCheck([World EXCEPT !.resp = StatusOK], ajr) :
                /\ SetWorld(c.w)
                /\ procs' = [procs EXCEPT ![p] =
                       [pc |-> IF c.pass THEN "create" ELSE "done",
                        ajr |-> ajr, resp |-> c.w.resp]]
          /\ last' = [op |-> "submit", ajr |-> ajr]
    /\ UNCHANGED scanVars

CSubmitCreate(p) ==
    /\ procs[p].pc = "create"
    /\ \E w \in submitCreate([World EXCEPT !.resp = StatusOK], procs[p].ajr) :
          /\ SetWorld(w)
          /\ procs' = [procs EXCEPT ![p] = [pc |-> "done", ajr |-> @.ajr, resp |-> w.resp]]
    /\ last' = [op |-> "submit", ajr |-> procs[p].ajr]
    /\ UNCHANGED scanVars

NextConcurrent ==
    \/ \E p \in 1..NumProcs : CSubmitCheck(p)
    \/ \E p \in 1..NumProcs : CSubmitCreate(p)

SpecConcurrent == Init /\ [][NextConcurrent]_vars

----------------------------------------------------------------------------
(* Requests of every kind, handled one at a time after two submit requests *)
(* that ran concurrently                                                    *)

\* two periodic submit requests, the first ones made: both run their uniqueness check
\* before either goes on from AddAdminJob
submitRaced(w, a1, a2) ==
    UNION { UNION { LET w1 == IF c1.pass THEN submitCreate(c2.w, a1) ELSE { c2.w }
                    IN UNION { IF c2.pass THEN submitCreate([x EXCEPT !.resp = StatusOK], a2)
                               ELSE { x } : x \in w1 }
                    : c2 \in submitCheck([c1.w EXCEPT !.resp = StatusOK], a2) }
            : c1 \in submitCheck(w, a1) }

SubmitRaced ==
    /\ nextID = 1
    /\ \E a1, a2 \in { ajr \in AdminJobReqs : IsPeriodic(ajr) } :
          /\ \E w \in submitRaced(Fresh(World), a1, a2) : SetWorld(w)
          /\ last' = [op |-> "submitRaced", ajr |-> a1, ajr2 |-> a2]
    /\ UNCHANGED <<procs, scanVars>>

UpdateScheduleLater ==
    /\ nextID > 1
    /\ nextID <= MaxID + 1
    /\ \E ajr \in AdminJobReqs :
          /\ \E w \in updateSchedule(Fresh(World), ajr) : SetWorld(w)
          /\ last' = [op |-> "updateSchedule", ajr |-> ajr]
    /\ UNCHANGED <<procs, scanVars>>

GetSchedule ==
    /\ nextID > 1
    /\ \E name \in Names :
          /\ \E w \in getSchedule(Fresh(World), name) : SetWorld(w)
          /\ last' = [op |-> "getSchedule", ajr |-> [NoReq EXCEPT !.name = name]]
    /\ UNCHANGED <<procs, scanVars>>

GetLog ==
    /\ nextID > 1
    /\ \E id \in 1..nextID :
          \E w \in getLog(Fresh(World), id) : SetWorld(w)
    /\ last' = [op |-> "getLog", ajr |-> NoReq]
    /\ UNCHANGED <<procs, scanVars>>

\* the schedule replaced after the race
NextAPI ==
    \/ SubmitRaced
    \/ UpdateScheduleLater

SpecAPI == Init /\ [][NextAPI]_vars

\* the store read after the race
NextRead ==
    \/ SubmitRaced
    \/ GetSchedule
    \/ GetLog

SpecRead == Init /\ [][NextRead]_vars

----------------------------------------------------------------------------
(* The scan job *)

\* Validate alone, on every parameter mapping
InitValidate == InitAdmin /\ InitProcs /\ jobParams \in AllParams /\ ScanIdle

NextValidate == Validate

SpecValidate == InitValidate /\ [][NextValidate]_vars

\* Validate, then Run, on the mappings Validate accepts
InitScan == InitAdmin /\ InitProcs /\ jobParams \in ValidParams /\ ScanIdle

NextScan ==
    \/ Validate
    \/ RunStart
    \/ \E i \in 1..NumWorkers : PollTick(i)
    \/ \E i \in 1..NumWorkers : PollCheckin(i)
    \/ \E i \in 1..NumWorkers : PollCancel(i)
    \/ \E i \in 1..NumWorkers : PollTimeout(i)
    \/ Cancel
    \/ Advance
    \/ RunJoin

SpecScan == InitScan /\ [][NextScan]_vars

\* Run with no end to the report requests, every step but the cancellation
\* taken when it stays possible. The pollers share nothing, so one is followed:
\* the runs are those of one mime type or none.
InitScanLive ==
    /\ InitAdmin /\ InitProcs /\ ScanIdle
    /\ jobParams \in { p \in ValidParams : Len(extractMimeTypes(p).val) <= 1 }

NextScanLive ==
    \/ NextScan
    \/ \E i \in 1..NumWorkers : PollTickOver(i)

\* a step of Run or of a poller: every step but the cancellation
RunStep ==
    \/ Validate
    \/ RunStart
    \/ \E i \in 1..NumWorkers : PollTick(i)
    \/ \E i \in 1..NumWorkers : PollTickOver(i)
    \/ \E i \in 1..NumWorkers : PollCheckin(i)
    \/ \E i \in 1..NumWorkers : PollTimeout(i)
    \/ Advance
    \/ RunJoin

SpecScanLive ==
    /\ InitScanLive
    /\ [][NextScanLive]_vars
    /\ WF_vars(RunStep)
    /\ WF_vars(\E i \in 1..NumWorkers : PollCancel(i))

----------------------------------------------------------------------------
(* Properties of the admin job schedule *)

PeriodicOf(jobs, name) == { j \in jobs : j.name = name /\ j.kind = JobKindPeriodic }

CallsTo(cs, ops) == { i \in 1..Len(cs) : cs[i].op \in ops }

\* C1: whatever the store and the job service answer, after every request
\* handled on its own the store holds at most one periodic record per name.
C1_UniquePeriodic ==
    \A n \in Names : Cardinality(PeriodicOf(adminJobs, n)) <= 1

C1_Witness ==
    /\ last.op = "updateSchedule"
    /\ IsPeriodic(last.ajr)
    /\ resp = StatusOK
    /\ Cardinality(PeriodicOf(adminJobs, last.ajr.name)) = 1
    /\ nextID > 2

\* the frame of a rejected submit: no record created, nothing sent to the job service
SubmitRejectedFrame ==
    /\ adminJobs' = adminJobs
    /\ nextID' = nextID
    /\ jsJobs' = jsJobs
    /\ nextUUID' = nextUUID
    /\ CallsTo(calls', {"AddAdminJob", "SubmitJob", "PostAction"}) = {}

PeriodicSubmitOnExisting ==
    /\ last'.op = "submit"
    /\ IsPeriodic(last'.ajr)
    /\ PeriodicOf(adminJobs, last'.ajr.name) # {}

\* C2 as stated: a periodic submit for a name that has a periodic record always
\* answers precondition failed (412), creates no record and sends nothing to the
\* job service.
C2_Original ==
    [][ PeriodicSubmitOnExisting
        => (resp' = StatusPreconditionFailed /\ SubmitRejectedFrame) ]_vars

\* C2 amended: such a submit always fails, with precondition failed (412) when
\* the store answers the query and with an internal error (500) when the query
\* itself fails; either way it creates no record and sends nothing to the job
\* service.
C2_RejectsSecondPeriodic ==
    [][ PeriodicSubmitOnExisting
        => /\ Len(calls') = 1
           /\ calls'[1].op = "GetAdminJobs"
           /\ resp' = (IF calls'[1].ans = "ok" THEN StatusPreconditionFailed
                       ELSE StatusInternalServerError)
           /\ SubmitRejectedFrame ]_vars

C2_Witness ==
    /\ last.op = "submit"
    /\ IsPeriodic(last.ajr)
    /\ resp = StatusPreconditionFailed
    /\ PeriodicOf(adminJobs, last.ajr.name) # {}
    /\ calls = << [op |-> "GetAdminJobs", arg |-> last.ajr.name, ans |-> "ok"] >>

UpdateOnSingle ==
    /\ last'.op = "updateSchedule"
    /\ Cardinality(PeriodicOf(adminJobs, last'.ajr.name)) = 1

\* C3 as stated: updateSchedule with type None on a name that has exactly one
\* periodic record leaves zero periodic records of that name.
C3_Original ==
    [][ (UpdateOnSingle /\ last'.ajr.schedule.type = ScheduleNone)
        => PeriodicOf(adminJobs', last'.ajr.name) = {} ]_vars

\* C3 amended: an updateSchedule with type None on a name that has exactly one
\* periodic record, when it ends without an error response, leaves zero periodic
\* records of that name.
C3_NoneLeavesZero ==
    [][ (UpdateOnSingle /\ last'.ajr.schedule.type = ScheduleNone /\ resp' = StatusOK)
        => PeriodicOf(adminJobs', last'.ajr.name) = {} ]_vars

C3_Witness ==
    /\ last.op = "updateSchedule"
    /\ last.ajr.schedule.type = ScheduleNone
    /\ resp = StatusOK
    /\ CallsTo(calls, {"DeleteAdminJob"}) # {}
    /\ PeriodicOf(adminJobs, last.ajr.name) = {}

\* the one periodic record of the name after the step is a new record, and its
\* uuid is one the job service gave in this step
ReplacedByFresh ==
    /\ Cardinality(PeriodicOf(adminJobs', last'.ajr.name)) = 1
    /\ \A j \in PeriodicOf(adminJobs', last'.ajr.name) :
          /\ j.id >= nextID
          /\ j.uuid # NoUUID
          /\ j.uuid >= nextUUID
          /\ \A o \in PeriodicOf(adminJobs, last'.ajr.name) : j.uuid # o.uuid

OthersSucceeded ==
    \A i \in 1..Len(calls) : calls[i].op # "PostAction" => calls[i].ans \in {"ok", "nil"}

\* C5: when the job service answers the stop request with 404, updateSchedule
\* does not fail on it: its next call deletes the record, and when the deletion
\* succeeds it submits again unless the type is None; with no other call
\* failing, the request ends without an error response.
C5_StopNotFoundGoesOn ==
    last.op = "updateSchedule" =>
        \A i \in 1..Len(calls) :
            (calls[i].op = "PostAction" /\ calls[i].ans = "http404") =>
                /\ Len(calls) > i
                /\ calls[i + 1].op = "DeleteAdminJob"
                /\ calls[i + 1].ans = "ok" =>
                      /\ \A j \in adminJobs : j.id # calls[i + 1].arg
                      /\ IF last.ajr.schedule.type = ScheduleNone
                         THEN Len(calls) = i + 1
                         ELSE /\ Len(calls) > i + 1
                              /\ calls[i + 2].op = "GetAdminJobs"
                /\ OthersSucceeded => resp = StatusOK

C5_Witness ==
    /\ last.op = "updateSchedule"
    /\ IsPeriodic(last.ajr)
    /\ \E i \in 1..Len(calls) : calls[i].op = "PostAction" /\ calls[i].ans = "http404"
    /\ CallsTo(calls, {"SubmitJob"}) # {}
    /\ resp = StatusOK

\* a submit, made on its own, whose job the job service rejected
SubmitJobRejected ==
    /\ last'.op = "submit"
    /\ \E i \in 1..Len(calls') : calls'[i].op = "SubmitJob" /\ calls'[i].ans # "nil"

RejectedAnswer ==
    \A i \in 1..Len(calls') :
        calls'[i].op = "SubmitJob" =>
            resp' = (IF calls'[i].ans = "http409" THEN StatusConflict
                     ELSE StatusInternalServerError)

\* C11 as stated: when the job service rejects the job of a submit, the record
\* the submit created is deleted, so the store holds the records it held before,
\* and the response is conflict (409) when the job service answered 409 and an
\* internal error (500) otherwise.
C11_Original ==
    [][ SubmitJobRejected => (adminJobs' = adminJobs /\ RejectedAnswer) ]_vars

\* C11 amended: when the job service rejects the job of a submit, the submit's
\* last call asks the store to delete the record it created; when that deletion
\* succeeds the store holds the records it held before, and when it fails the
\* record stays, without a uuid; either way the response is conflict (409) when
\* the job service answered 409 and an internal error (500) otherwise.
C11_RejectedSubmitCleansUp ==
    [][ SubmitJobRejected =>
          /\ calls'[Len(calls')].op = "DeleteAdminJob"
          /\ calls'[Len(calls')].arg = nextID
          /\ calls'[Len(calls') - 1].op = "SubmitJob"
          /\ IF calls'[Len(calls')].ans = "ok"
             THEN adminJobs' = adminJobs
             ELSE adminJobs' = adminJobs \cup
                     { [ id |-> nextID, name |-> last'.ajr.name, kind |-> JobKind(last'.ajr),
                         cron |-> CronString(last'.ajr), uuid |-> NoUUID ] }
          /\ jsJobs' = jsJobs
          /\ RejectedAnswer ]_vars

C11_Witness ==
    /\ last.op = "submit"
    /\ resp = StatusConflict
    /\ Len(calls) >= 2
    /\ calls[Len(calls) - 1].op = "SubmitJob"
    /\ calls[Len(calls) - 1].ans = "http409"
    /\ calls[Len(calls)].op = "DeleteAdminJob"
    /\ calls[Len(calls)].ans = "ok"
    /\ \A j \in adminJobs : j.id # calls[Len(calls)].arg
    /\ adminJobs # {}

\* C12: in a submit that ends without an error response, the record is added
\* to the store before the job is sent to the job service, the status hook of
\* the job carries the id of that record, and after the submit the record holds
\* the uuid the job service gave to the job.
C12_RecordBeforeJob ==
    [][ (last'.op = "submit" /\ resp' = StatusOK) =>
          \E i, k \in 1..Len(calls') :
              /\ i < k
              /\ calls'[i] = [op |-> "AddAdminJob", arg |-> nextID, ans |-> "ok"]
              /\ calls'[k] = [op |-> "SubmitJob", arg |-> nextID, ans |-> "nil"]
              /\ CallsTo(calls', {"SubmitJob"}) = {k}
              /\ \E r \in adminJobs' : r.id = nextID /\ r.uuid = nextUUID
              /\ \E j \in jsJobs' : j.uuid = nextUUID /\ j.hook = nextID
              /\ nextUUID' = nextUUID + 1 ]_vars

C12_Witness ==
    /\ last.op = "submit"
    /\ resp = StatusOK
    /\ IsPeriodic(last.ajr)
    /\ \E r \in adminJobs : \E j \in jsJobs :
          /\ r.id = 2 /\ r.uuid = 2 /\ j.uuid = 2 /\ j.hook = 2
          /\ r.name = last.ajr.name

UpdateNotOnSingle ==
    /\ last'.op = "updateSchedule"
    /\ Cardinality(PeriodicOf(adminJobs, last'.ajr.name)) # 1

\* C13: updateSchedule on a name that has no periodic record, or more than
\* one, answers an internal error (500), makes no call to the job service and
\* changes nothing in the store.
C13_NotSingleFails ==
    [][ UpdateNotOnSingle =>
          /\ resp' = StatusInternalServerError
          /\ adminJobs' = adminJobs
          /\ nextID' = nextID
          /\ jsJobs' = jsJobs
          /\ nextUUID' = nextUUID
          /\ CallsTo(calls', {"PostAction", "SubmitJob", "AddAdminJob", "DeleteAdminJob",
                              "SetAdminJobUUID"}) = {} ]_vars

C13_Witness ==
    /\ last.op = "updateSchedule"
    /\ IsPeriodic(last.ajr)
    /\ Cardinality(PeriodicOf(adminJobs, last.ajr.name)) = 2
    /\ resp = StatusInternalServerError
    /\ calls = << [op |-> "GetAdminJobs", arg |-> last.ajr.name, ans |-> "ok"] >>

\* C14: updateSchedule changes no record in place: every record that was in
\* the store before and is in it after is the same record; the record is
\* deleted only after the stop request was sent to the job service; and a
\* record is added, a job submitted or a uuid stored only after the deletion.
C14_StopDeleteRecreate ==
    [][ last'.op = "updateSchedule" =>
          /\ \A r \in adminJobs' : r.id < nextID => r \in adminJobs
          /\ \A i \in 1..Len(calls') :
                /\ (calls'[i].op = "DeleteAdminJob" /\ calls'[i].arg < nextID) =>
                      \E k \in 1..(i - 1) : calls'[k].op = "PostAction"
                /\ calls'[i].op \in {"AddAdminJob", "SubmitJob", "SetAdminJobUUID"} =>
                      \E k \in 1..(i - 1) :
                          /\ calls'[k].op = "DeleteAdminJob"
                          /\ calls'[k].arg < nextID
                          /\ calls'[k].ans = "ok" ]_vars

C14_Witness ==
    /\ last.op = "updateSchedule"
    /\ resp = StatusOK
    /\ [i \in 1..Len(calls) |-> calls[i].op] =
          << "GetAdminJobs", "PostAction", "DeleteAdminJob", "GetAdminJobs", "AddAdminJob",
             "SubmitJob", "SetAdminJobUUID" >>
    /\ calls[2].ans = "nil"

\* C15 as stated: a request whose schedule type is None creates nothing:
\* neither submit nor updateSchedule adds a record or submits a job for it.
C15_Original ==
    [][ (last'.op \in {"submit", "updateSchedule"} /\ last'.ajr.schedule.type = ScheduleNone) =>
          /\ adminJobs' \subseteq adminJobs
          /\ nextID' = nextID
          /\ CallsTo(calls', {"AddAdminJob", "SubmitJob"}) = {} ]_vars

\* C10: two concurrent periodic submits for one name can both pass the
\* uniqueness check before either creates its record; whenever two such
\* submits both end without an error response, the store holds two periodic
\* records of that name.
C10_RaceDuplicates ==
    \A p, q \in 1..NumProcs :
        ( /\ p # q
          /\ procs[p].pc = "done" /\ procs[q].pc = "done"
          /\ procs[p].resp = StatusOK /\ procs[q].resp = StatusOK
          /\ IsPeriodic(procs[p].ajr) /\ IsPeriodic(procs[q].ajr)
          /\ procs[p].ajr.name = procs[q].ajr.name )
        => Cardinality(PeriodicOf(adminJobs, procs[p].ajr.name)) >= 2

C10_Witness ==
    \E p, q \in 1..NumProcs :
        /\ p # q
        /\ procs[p].pc = "done" /\ procs[q].pc = "done"
        /\ procs[p].resp = StatusOK /\ procs[q].resp = StatusOK
        /\ procs[p].ajr.name = procs[q].ajr.name
        /\ Cardinality(PeriodicOf(adminJobs, procs[p].ajr.name)) = 2

----------------------------------------------------------------------------
(* Properties of the scan job *)

WrongType(p, key, t) == key \in DOMAIN p.m /\ p.m[key].t # t

\* the mappings the claim names: nil, a key missing, a value of the wrong type,
\* a mime type list with an element that is no string
BadParams(p) ==
    \/ p.nil
    \/ \E k \in ParamKeys : k \notin DOMAIN p.m
    \/ WrongType(p, JobParamRegistration, "string")
    \/ WrongType(p, JobParameterRequest, "string")
    \/ WrongType(p, JobParameterMimes, "[]interface{}")
    \/ /\ JobParameterMimes \in DOMAIN p.m
       /\ p.m[JobParameterMimes].t = "[]interface{}"
       /\ \E i \in 1..Len(p.m[JobParameterMimes].v) : p.m[JobParameterMimes].v[i].t # "string"

NoScanWork ==
    /\ scanCalls = [getClient |-> 0, submitScan |-> 0, failed |-> ""]
    /\ workers = <<>>
    /\ checkins = <<>>

\* C6: Validate rejects every mapping that is nil, lacks one of the three keys,
\* stores a value of the wrong type under one of them, or whose mime type list
\* holds an element that is no string; and when Validate has answered, accepting
\* or rejecting, no call was made to the scanner client and no check-in.
C6_ValidateRejects ==
    validateResult # "none" =>
        /\ BadParams(jobParams) => validateResult = "err"
        /\ NoScanWork

C6_Witness ==
    /\ validateResult = "err"
    /\ ~jobParams.nil
    /\ DOMAIN jobParams.m = ParamKeys
    /\ extractRegistration(jobParams).err = NoErr
    /\ ExtractScanReq(jobParams).err = NoErr
    /\ jobParams.m[JobParameterMimes].t = "[]interface{}"
    /\ Len(jobParams.m[JobParameterMimes].v) = 2
    /\ jobParams.m[JobParameterMimes].v[1].t = "string"
    /\ jobParams.m[JobParameterMimes].v[2].t # "string"
    /\ NoScanWork

CheckedIn(j) == Len(checkins[j]) = 1

C7_State ==
    /\ \A j \in 1..NumWorkers :
          (workers[j].pc = "done" /\ workers[j].gotValid) => CheckedIn(j)
    /\ (runPc = "done" /\ NumWorkers > 0) =>
          /\ \A j \in 1..NumWorkers : workers[j].gotValid => CheckedIn(j)
          /\ (\E i \in 1..NumWorkers : errs[i] # NoErr) => runErr # NoErr

C7_Step ==
    runPc = "polling" =>
        \A i \in 1..NumWorkers :
            errs'[i] # errs[i] =>
                \A j \in 1..NumWorkers \ {i} :
                    /\ workers'[j] = workers[j]
                    /\ errs'[j] = errs[j]
                    /\ checkins'[j] = checkins[j]

\* C7: a poller that fails stops no sibling: the step in which a poller records
\* its error leaves every other poller, slot and check-in as it was; every
\* poller that received a valid report and returned has made its check-in; and
\* when Run returns with a slot holding an error, it returns an error.
C7_SiblingsUnaffected == []C7_State /\ [][C7_Step]_vars

C7_Witness ==
    /\ runPc = "done"
    /\ runErr # NoErr
    /\ \E i, j \in 1..NumWorkers :
          /\ i < j
          /\ errs[i] = Wrap(<<"scanner error">>, <<"check scan report with mime type", Mimes[i]>>)
          /\ workers[j].gotValid
          /\ errs[j] = NoErr
          /\ CheckedIn(j)
          /\ checkins[j][1].er = "nil"

SuccessfulCheckin(i) ==
    /\ i <= NumWorkers
    /\ \E k \in 1..Len(checkins[i]) : checkins[i][k].er = "nil"

\* C8 as stated: Run returns nil only if the poller of every requested mime
\* type made a successful check-in of its report.
C8_Original ==
    (runPc = "done" /\ runErr = NoErr) =>
        \A i \in 1..Len(Mimes) : SuccessfulCheckin(i)

\* C9: a poller requests a report only when its timer has elapsed: at its
\* first request it has waited at least 2 seconds since it started, and at a
\* request that follows a not-ready answer it has waited at least the
\* retry-after seconds of that answer.
C9_WaitsForHint ==
    \A i \in 1..NumWorkers :
        /\ workers[i].polls >= 1 => workers[i].reqWaited >= workers[i].reqHint
        /\ workers[i].polls = 1 => workers[i].reqWaited >= 2
        /\ (workers[i].pc = "select" /\ workers[i].polls = 0)
              => workers[i].waited + workers[i].tm >= 2
        /\ (workers[i].pc = "select" /\ workers[i].polls >= 1)
              => workers[i].waited + workers[i].tm >= workers[i].hint

C9_Witness ==
    \E i \in 1..NumWorkers :
        /\ workers[i].polls = 2
        /\ workers[i].reqHint = 1000
        /\ workers[i].reqWaited = 1000

----------------------------------------------------------------------------
(* Properties of the reading requests *)

\* the body served by the request, when it served one
Served(cs) == { cs[i].ans : i \in CallsTo(cs, {"ServeJSON"}) }

\* every record is created with, and keeps, the CronString of the request of
\* the submit that created it
CronAsGiven ==
    /\ \A r \in adminJobs' :
          r.id >= nextID =>
              /\ last'.op = "submitRaced"
              /\ \E a \in {last'.ajr, last'.ajr2} :
                    r.name = a.name /\ r.kind = JobKind(a) /\ r.cron = CronString(a)
    /\ \A r \in adminJobs' :
          r.id < nextID => \E o \in adminJobs : o.id = r.id /\ o.cron = r.cron

\* what getSchedule is to answer for the periodic records P of the name
ScheduleAnswered(P) ==
    IF Cardinality(P) > 1
    THEN resp' = StatusInternalServerError /\ Served(calls') = {}
    ELSE IF Cardinality(P) = 0
    THEN resp' = StatusOK /\ Served(calls') = { NilSchedule }
    ELSE /\ resp' = StatusOK
         /\ \E r \in P : \E sp \in ScheduleParams :
               /\ r.cron = CronString([schedule |-> sp])
               /\ Served(calls') = { <<sp>> }

\* C16 as stated: getSchedule answers the schedule of the single periodic
\* record of the name, the one given to the submit that created the record; an
\* empty schedule when the name has no periodic record; an internal error when
\* it has more than one.
C16_Original ==
    /\ [][CronAsGiven]_vars
    /\ [][ last'.op = "getSchedule" =>
              ScheduleAnswered(PeriodicOf(adminJobs, last'.ajr.name)) ]_vars

\* C16 amended: when the store answers its query, getSchedule answers as
\* stated; when the query fails it answers an internal error; it changes
\* nothing in the store.
C16_ScheduleRoundTrip ==
    /\ [][CronAsGiven]_vars
    /\ [][ last'.op = "getSchedule" =>
              /\ adminJobs' = adminJobs /\ jsJobs' = jsJobs
              /\ calls'[1].op = "GetAdminJobs"
              /\ IF calls'[1].ans = "ok"
                 THEN ScheduleAnswered(PeriodicOf(adminJobs, last'.ajr.name))
                 ELSE resp' = StatusInternalServerError /\ Served(calls') = {} ]_vars

C16_Witness ==
    /\ last.op = "getSchedule"
    /\ resp = StatusOK
    /\ Cardinality(PeriodicOf(adminJobs, last.ajr.name)) = 1
    /\ Cardinality(adminJobs) = 2
    /\ Served(calls) = { << [type |-> ScheduleCustom, cron |-> "0 */5 * * * *"] >> }

JobLogCalls == { i \in 1..Len(calls) : calls[i].op = "GetJobLog" }

\* C17 as stated: getLog answers 404 when the job service reports not found
\* for the uuid of the record, and 500 for every other error of the job service.
C17_Original ==
    last.op = "getLog" =>
        \A i \in JobLogCalls :
            /\ calls[i].ans = "http404" => resp = StatusNotFound
            /\ calls[i].ans \notin {"nil", "http404"} => resp = StatusInternalServerError

\* C17 amended: getLog asks the job service for the log of the uuid of the
\* record; it answers 404 when the job service reports not found, the status
\* code of the job service when that reports another http error, and 500 when
\* the error of the job service is no http error.
C17_LogErrors ==
    last.op = "getLog" =>
        \A i \in JobLogCalls :
            /\ i = 2
            /\ \E r \in adminJobs : r.id = calls[1].arg /\ r.uuid = calls[i].arg
            /\ calls[i].ans = "http404" => resp = StatusNotFound
            /\ calls[i].ans = "http401" => resp = 401
            /\ calls[i].ans = "http500" => resp = StatusInternalServerError
            /\ calls[i].ans = "other" => resp = StatusInternalServerError

C17_Witness ==
    /\ last.op = "getLog"
    /\ Len(calls) = 2
    /\ calls[2].op = "GetJobLog"
    /\ calls[2].ans = "http404"
    /\ calls[2].arg # NoUUID
    /\ resp = StatusNotFound

----------------------------------------------------------------------------
(* Properties of the job log and of the time a poller takes *)

\* C18: what Run writes to the job log does not depend on the registry
\* credential of the scan request: the run and the run made with another
\* credential, the scanner answering both alike, have logged the same lines,
\* and no line holds either credential.
C18_LogHidesCredential ==
    /\ jobLog = twinLog
    /\ \A line \in jobLog \cup twinLog : \A k \in 1..Len(line) :
          line[k] \notin { ExtractScanReq(jobParams).val.registry.authorization,
                           ExtractScanReq(Twin(jobParams)).val.registry.authorization }

C18_Witness ==
    /\ runPc = "done"
    /\ runErr # NoErr
    /\ ExtractScanReq(jobParams).val.registry.authorization = "Bearer secret"
    /\ ExtractScanReq(Twin(jobParams)).val.registry.authorization = "Basic other"
    /\ removeAuthInfo(ExtractScanReq(jobParams).val) \in { Tail(line) : line \in jobLog }
    /\ \E i \in 1..NumWorkers : RunLogCheckedIn(jobParams, i) \in jobLog
    /\ \E i \in 1..NumWorkers : RunLogNotReady(jobParams, i, 1000) \in jobLog

\* C19 as stated: a poller that has not checked in a report within 30 minutes
\* of its start stops with a timeout error, however many not-ready answers it
\* received: no poller is still waiting more than 30 minutes after its start.
C19_Original ==
    \A i \in 1..NumWorkers :
        workers[i].pc = "select" => workers[i].age <= checkTimeout

\* C20 as stated: every Run returns in the end, also when the scanner answers
\* not-ready to every request.
C20_Original == <>(runPc = "done")

----------------------------------------------------------------------------
(* Properties of the pollers and of the join *)

\* C21 as stated: once the system context is cancelled, no poller makes a
\* further report request or check-in.
C21_Original ==
    [][cancelled =>
          \A i \in 1..NumWorkers :
              /\ workers'[i].polls = workers[i].polls
              /\ checkins'[i] = checkins[i]]_vars

\* the error slots of the pollers that did not stop at the cancellation, in
\* slot order
RECURSIVE SlotsNotCancelled(_)
SlotsNotCancelled(k) ==
    IF k = 0 THEN <<>>
    ELSE SlotsNotCancelled(k - 1)
         \o (IF workers[k].exit = "cancel" THEN <<>> ELSE <<errs[k]>>)

\* C22: a poller that stopped at the cancellation of the system context has
\* left its error slot empty, and the error Run returns is the merge of the
\* slots of the other pollers alone.
C22_CancelRecordsNothing ==
    /\ \A i \in 1..NumWorkers : workers[i].exit = "cancel" => errs[i] = NoErr
    /\ (runPc = "done" /\ NumWorkers > 0) =>
          runErr = mergeErrors(SlotsNotCancelled(NumWorkers), NoErr)

C22_Witness ==
    /\ runPc = "done"
    /\ \E i, j \in 1..NumWorkers :
          /\ workers[i].exit = "cancel"
          /\ workers[i].polls >= 1
          /\ workers[j].exit = "timeout"
          /\ runErr = errs[j]
          /\ runErr # NoErr

\* the error a poller records at an answer that is an error other than not ready
ReportRequestError(i) ==
    Wrap(<<"scanner error">>, <<"check scan report with mime type", Mimes[i]>>)

C23_State ==
    \A i \in 1..NumWorkers :
        workers[i].ans = "error" =>
            /\ workers[i].pc = "done"
            /\ workers[i].exit = "error"
            /\ errs[i] = ReportRequestError(i)
            /\ checkins[i] = <<>>

C23_Step ==
    \A i \in 1..NumWorkers :
        workers[i].ans = "error" =>
            /\ workers'[i] = workers[i]
            /\ errs'[i] = errs[i]
            /\ checkins'[i] = checkins[i]

\* C23: a poller whose report request the scanner answered with an error
\* other than not ready has returned with that error, under the mime type, in
\* its slot and with no check-in made; from then on it makes no report
\* request and no check-in, and its slot stays as it is.
C23_ErrorAnswerStops == []C23_State /\ [][C23_Step]_vars

C23_Witness ==
    /\ runPc = "done"
    /\ \E i \in 1..NumWorkers :
          /\ workers[i].ans = "error"
          /\ workers[i].polls = 2
          /\ runErr = ReportRequestError(i)

\* a poller that received a report of its mime type and returned
GotValidReport(i) ==
    /\ workers[i].ans = "report"
    /\ workers[i].gotValid
    /\ workers[i].pc = "done"

\* C24 as stated: a poller that received not-ready answers and then a valid
\* report has checked the report in and its error slot is empty.
C24_Original ==
    \A i \in 1..NumWorkers :
        GotValidReport(i) => (Len(checkins[i]) = 1 /\ errs[i] = NoErr)

C24_State ==
    \A i \in 1..NumWorkers :
        /\ workers[i].ans = "notReady" =>
              errs[i] \in {NoErr, <<"check scan report timeout">>}
        /\ GotValidReport(i) =>
              /\ Len(checkins[i]) = 1
              /\ checkins[i][1].er = "nil" => errs[i] = NoErr
              /\ checkins[i][1].er # "nil" =>
                    errs[i] = Wrap(<<"check in failed">>,
                                   <<"check in scan report for mime type", Mimes[i]>>)

C24_Step ==
    \A i \in 1..NumWorkers :
        (workers'[i].ans = "notReady" /\ workers'[i].polls = workers[i].polls + 1) =>
            /\ errs'[i] = NoErr
            /\ workers'[i].pc = "select"
            /\ checkins'[i] = checkins[i]

\* C24: a not-ready answer writes nothing to the error slot and leaves the
\* poller polling; a poller that received not-ready answers and then a valid
\* report has invoked the check-in of that report once, and its error slot is
\* empty when the check-in succeeded and holds the check-in error when it failed.
C24_NotReadyIsNoError == []C24_State /\ [][C24_Step]_vars

C24_Witness ==
    \E i \in 1..NumWorkers :
        /\ GotValidReport(i)
        /\ workers[i].polls = 3
        /\ workers[i].reqHint = 1000
        /\ workers[i].exit = "checkedIn"
        /\ errs[i] = NoErr

\* the check-in report of poller i for the raw report it received
CheckInReportOf(i, raw) ==
    [ Digest |-> ExtractScanReq(jobParams).val.artifact.digest,
      RegistrationUUID |-> extractRegistration(jobParams).val.uuid,
      MimeType |-> Mimes[i],
      RawReport |-> raw ]

ResolveError == Wrap(<<"unexpected report">>, <<"scan job: resolve report data">>)

C25_State ==
    \A i \in 1..NumWorkers :
        /\ \A k \in 1..Len(checkins[i]) :
              /\ JSONField(checkins[i][k].json, "mime_type") = Mimes[i]
              /\ ResolveData(Mimes[i], JSONField(checkins[i][k].json, "raw_report"))
        /\ (workers[i].pc = "done" /\ workers[i].ans = "report" /\ ~workers[i].gotValid) =>
              /\ checkins[i] = <<>>
              /\ errs[i] = ResolveError

C25_Step ==
    \A i \in 1..NumWorkers :
        /\ checkins'[i] # checkins[i] =>
              /\ workers[i].pc = "report"
              /\ workers[i].ans = "report"
              /\ ResolveData(Mimes[i], workers[i].raw)
              /\ \E er \in {"nil", "err"} :
                    checkins'[i] = Append(checkins[i],
                        [json |-> ToJSON(CheckInReportOf(i, workers[i].raw)), er |-> er])
        /\ (workers[i].pc = "report" /\ ~ResolveData(Mimes[i], workers[i].raw)
              /\ workers'[i] # workers[i]) =>
              /\ workers'[i].pc = "done"
              /\ errs'[i] = ResolveError
              /\ checkins'[i] = checkins[i]

\* C25: every check-in a poller makes is of the report the scanner returned
\* to that poller's latest request, under the poller's own mime type, and
\* that report passed the validation against that mime type; a poller whose
\* report fails the validation returns with the validation error in its slot
\* and makes no check-in.
C25_CheckinOnlyValidated == []C25_State /\ [][C25_Step]_vars

C25_Witness ==
    /\ runPc = "done"
    /\ \E i, j \in 1..NumWorkers :
          /\ Mimes[i] # Mimes[j]
          /\ workers[i].exit = "checkedIn"
          /\ Len(checkins[i]) = 1
          /\ workers[j].exit = "resolve"
          /\ checkins[j] = <<>>
          /\ runErr = ResolveError

\* C26 as stated: a poller makes at most one check-in, and a run makes at
\* most one check-in for each mime type.
C26_Original ==
    /\ \A i \in 1..NumWorkers : Len(checkins[i]) <= 1
    /\ \A i, j \in 1..NumWorkers :
          (i # j /\ Mimes[i] = Mimes[j]) => (checkins[i] = <<>> \/ checkins[j] = <<>>)

CheckInError(i) ==
    Wrap(<<"check in failed">>, <<"check in scan report for mime type", Mimes[i]>>)

C26_State ==
    \A i \in 1..NumWorkers :
        /\ Len(checkins[i]) <= 1
        /\ Len(checkins[i]) = 1 =>
              /\ workers[i].pc = "done"
              /\ checkins[i][1].er = "nil" => errs[i] = NoErr
              /\ checkins[i][1].er # "nil" => errs[i] = CheckInError(i)

C26_Step ==
    \A i \in 1..NumWorkers :
        Len(checkins[i]) = 1 =>
            /\ checkins'[i] = checkins[i]
            /\ workers'[i] = workers[i]
            /\ errs'[i] = errs[i]

\* C26: each poller invokes the check-in at most once in a run, so a run
\* makes at most one check-in for each entry of the list of mime types (a
\* mime type listed twice has two pollers, and each may check in); a poller
\* whose check-in fails has returned with the check-in error in its slot, and
\* makes no other check-in.
C26_OneCheckinPerPoller == []C26_State /\ [][C26_Step]_vars

C26_Witness ==
    /\ runPc = "done"
    /\ \E i, j \in 1..NumWorkers :
          /\ i # j
          /\ Mimes[i] = Mimes[j]
          /\ workers[i].exit = "checkedIn"
          /\ workers[j].exit = "checkInFailed"
          /\ Len(checkins[j]) = 1
          /\ runErr = CheckInError(j)

AllPollersDone == \A i \in 1..NumWorkers : workers[i].pc = "done"

C27_State ==
    /\ runPc = "polling" => NumWorkers = Len(Mimes)
    /\ (runPc = "done" /\ NumWorkers > 0) => AllPollersDone

C27_Step ==
    (runPc = "polling" /\ (runPc' # runPc \/ runErr' # runErr)) =>
        /\ AllPollersDone
        /\ runPc' = "done"
        /\ runErr' = mergeErrors(errs, NoErr)
        /\ workers' = workers
        /\ errs' = errs

\* C27: Run starts a poller for every entry of the list of mime types, and
\* the step in which it merges the error slots and returns is taken only when
\* every one of them has returned; once Run has returned no poller is running.
C27_JoinAfterAllPollers == []C27_State /\ [][C27_Step]_vars

C27_Witness ==
    /\ runPc = "done"
    /\ NumWorkers = 2
    /\ workers[1].exit = "error"
    /\ workers[1].polls = 1
    /\ workers[2].exit = "timeout"
    /\ workers[2].polls = 2
    /\ runErr = Wrap(errs[2], errs[1])

C28_State ==
    /\ Len(errs) = NumWorkers
    /\ runPc = "polling" => runErr = NoErr
    /\ \A j \in 1..NumWorkers : workers[j].pc # "done" => errs[j] = NoErr

C28_Step ==
    /\ \A j \in 1..NumWorkers :
          errs'[j] # errs[j] =>
              /\ errs[j] = NoErr
              /\ workers[j].pc # "done"
              /\ workers'[j].pc = "done"
              /\ \A k \in 1..NumWorkers \ {j} :
                    workers'[k] = workers[k] /\ errs'[k] = errs[k]
              /\ runPc' = "polling"
              /\ runErr' = runErr
    /\ (runPc = "polling" /\ runErr' # runErr) => AllPollersDone

\* C28: a step that writes an error slot is the return of the poller of that
\* index, finds the slot empty, and leaves every other slot and poller as it
\* was: each slot is written by its own poller alone and at most once; and
\* Run takes nothing from the slots before every poller has returned.
C28_OwnSlotOnce == []C28_State /\ [][C28_Step]_vars

C28_Witness ==
    /\ runPc = "done"
    /\ NumWorkers = 2
    /\ workers[1].exit = "resolve"
    /\ errs[1] = ResolveError
    /\ workers[2].exit = "timeout"
    /\ errs[2] = <<"check scan report timeout">>

\* the messages of the first k error slots, one after the other
RECURSIVE MessagesInOrder(_)
MessagesInOrder(k) == IF k = 0 THEN <<>> ELSE MessagesInOrder(k - 1) \o errs[k]

C29_State ==
    (runPc = "done" /\ NumWorkers > 0) =>
        /\ runErr = MessagesInOrder(NumWorkers)
        /\ runErr # NoErr <=> \E i \in 1..NumWorkers : errs[i] # NoErr

C29_Step ==
    (runPc = "polling" /\ runPc' = "done") =>
        /\ runErr' = MessagesInOrder(NumWorkers)
        /\ runErr' # NoErr <=> \E i \in 1..NumWorkers : errs[i] # NoErr

\* C29: the error Run returns after the join is made of the messages of the
\* error slots that are not empty, each of them whole, in the order of the
\* poller indexes; it is no error exactly when every slot is empty.
C29_MergeInIndexOrder == []C29_State /\ [][C29_Step]_vars

C29_Witness ==
    /\ runPc = "done"
    /\ NumWorkers = 2
    /\ workers[1].exit = "checkInFailed"
    /\ workers[2].exit = "error"
    /\ runErr = CheckInError(1) \o ReportRequestError(2)

C30_State ==
    /\ scanCalls.getClient <= 1
    /\ scanCalls.submitScan <= scanCalls.getClient
    /\ runPc = "idle" => (scanCalls.getClient = 0 /\ NumWorkers = 0)
    /\ (runPc = "polling" \/ NumWorkers > 0) =>
          (scanCalls.submitScan = 1 /\ scanCalls.failed = "")
    /\ scanCalls.failed # "" =>
          /\ runPc = "done"
          /\ workers = <<>>
          /\ checkins = <<>>
          /\ scanCalls.failed = "getClient" =>
                /\ scanCalls.submitScan = 0
                /\ runErr = Wrap(<<"no client">>, <<"scan job: get client">>)
          /\ scanCalls.failed = "submitScan" =>
                runErr = Wrap(<<"scan refused">>, <<"scan job: submit scan request">>)

C30_Step ==
    /\ runPc' # runPc =>
          <<runPc, runPc'>> \in { <<"idle", "polling">>, <<"idle", "done">>,
                                  <<"polling", "done">> }
    /\ runPc # "idle" => scanCalls' = scanCalls
    /\ \A i \in 1..NumWorkers :
          (workers'[i].polls # workers[i].polls \/ checkins'[i] # checkins[i]) =>
              (runPc = "polling" /\ scanCalls.submitScan = 1)
    /\ runPc = "done" =>
          (workers' = workers /\ checkins' = checkins /\ errs' = errs /\ runErr' = runErr)

\* C30: Run goes from its start to the polling and from the polling to its
\* return, or from its start to its return; it asks for the client once and
\* submits the scan at most once, both before any poller exists, and every
\* report request and check-in is made while Run waits for the pollers after a
\* scan that was submitted; when the client or the submission fails, Run has
\* returned that error, wrapped, and there is no poller and no check-in.
C30_PhasesInOrder == []C30_State /\ [][C30_Step]_vars

C30_Witness ==
    /\ runPc = "done"
    /\ scanCalls = [getClient |-> 1, submitScan |-> 1, failed |-> "submitScan"]
    /\ Len(Mimes) = 2
    /\ workers = <<>>
    /\ runErr # NoErr

----------------------------------------------------------------------------
(* Properties of the records and of the runner jobs *)

\* C31 as stated: every record of kind generic has an empty cron field.
C31_Original ==
    \A j \in adminJobs : j.kind = JobKindGeneric => Len(j.cron) = 0

\* C31: every record Submit creates carries the serialized schedule of its
\* request in its cron field, a generic record as well: the field of a
\* generic record is the serialization of its Manual schedule and is not
\* empty, and the field of a periodic record that of its periodic schedule.
C31_RecordsCarrySchedule ==
    \A j \in adminJobs :
        /\ Len(j.cron) > 0
        /\ JSONWellFormed(j.cron)
        /\ j.kind = JobKindGeneric =>
              (JSONField(j.cron, "type") = ScheduleManual /\ JSONField(j.cron, "cron") = "")
        /\ j.kind = JobKindPeriodic =>
              /\ JSONField(j.cron, "type")
                    \in {ScheduleHourly, ScheduleDaily, ScheduleWeekly, ScheduleCustom}
              /\ [type |-> JSONField(j.cron, "type"), cron |-> JSONField(j.cron, "cron")]
                    \in ScheduleParams

C31_Witness ==
    /\ last.op = "submit"
    /\ last.ajr.schedule.type = ScheduleManual
    /\ \E j \in adminJobs :
          /\ j.kind = JobKindGeneric
          /\ j.name = last.ajr.name
          /\ j.uuid # NoUUID
          /\ j.cron = <<"{", "type", ScheduleManual, "cron", "", "}">>
    /\ \E j \in adminJobs : j.kind = JobKindPeriodic

\* an updateSchedule whose stop request the job service failed with an error
\* that is no 404
StopFailed ==
    /\ last'.op = "updateSchedule"
    /\ \E i \in 1..Len(calls') :
          calls'[i].op = "PostAction" /\ calls'[i].ans \in {"http500", "other"}

C32_Step ==
    StopFailed =>
        /\ adminJobs' = adminJobs
        /\ nextID' = nextID
        /\ jsJobs' = jsJobs
        /\ nextUUID' = nextUUID
        /\ resp' = StatusInternalServerError
        /\ calls'[Len(calls')].op = "PostAction"
        /\ CallsTo(calls', {"DeleteAdminJob", "AddAdminJob", "SubmitJob", "SetAdminJobUUID"}) = {}

\* C32: when the stop request of updateSchedule fails with an error other
\* than not found, the request ends there with an internal error: the records,
\* the existing periodic record among them, and the jobs of the job service
\* are as before, and no record is deleted or added and no job submitted.
C32_StopFailureKeepsRecord == [][C32_Step]_vars

C32_Witness ==
    /\ last.op = "updateSchedule"
    /\ IsPeriodic(last.ajr)
    /\ resp = StatusInternalServerError
    /\ \E i \in 1..Len(calls) : calls[i].op = "PostAction" /\ calls[i].ans = "http500"
    /\ \E j \in PeriodicOf(adminJobs, last.ajr.name) :
          /\ j.cron # CronString(last.ajr)
          /\ \E r \in jsJobs : r.uuid = j.uuid

\* the periodic jobs of a name the job service holds: submitted and not stopped
LivePeriodic(name) == { r \in jsJobs : r.name = name /\ r.kind = JobKindPeriodic }

OneLivePeriodic == \A n \in Names : Cardinality(LivePeriodic(n)) <= 1

JobsReachable == \A r \in jsJobs : \E j \in adminJobs : j.uuid = r.uuid /\ j.id = r.hook

\* C33 as stated: with the requests handled one at a time, the job service
\* never holds more than one live periodic job of one name, and every job it
\* accepted in a submit is found through the uuid stored on its record.
C33_Original == OneLivePeriodic /\ JobsReachable

ManualSubmit ==
    /\ last'.op = "submit"
    /\ last'.ajr.schedule.type = ScheduleManual

C34_Step ==
    ManualSubmit =>
        /\ resp' # StatusPreconditionFailed
        /\ CallsTo(calls', {"GetAdminJobs"}) = {}
        /\ Len(calls') >= 1
        /\ calls'[1].op = "AddAdminJob"
        /\ \A n \in Names : PeriodicOf(adminJobs', n) = PeriodicOf(adminJobs, n)
        /\ \A n \in Names : LivePeriodic(n)' = LivePeriodic(n)

\* C34: a submit of a Manual request makes no uniqueness query and is never
\* answered with the precondition error, whatever records exist: its first
\* call adds its record; and it leaves every periodic record, that of its own
\* name among them, and every periodic job of the job service as they were.
C34_ManualSkipsUniqueness == [][C34_Step]_vars

C34_Witness ==
    /\ last.op = "submit"
    /\ last.ajr.schedule.type = ScheduleManual
    /\ resp = StatusOK
    /\ \E j \in PeriodicOf(adminJobs, last.ajr.name) : j.id = 1 /\ j.uuid # NoUUID
    /\ \E j \in adminJobs :
          /\ j.id = 2
          /\ j.name = last.ajr.name
          /\ j.kind = JobKindGeneric
          /\ j.uuid # NoUUID

----------------------------------------------------------------------------
(* Properties of the scan job with no mime type *)

EmptyMimeList ==
    /\ ~jobParams.nil
    /\ HasParam(jobParams, JobParameterMimes)
    /\ jobParams.m[JobParameterMimes] = ListValue(<<>>)

\* C35 as stated: with an empty list of mime types Run submits the scan,
\* starts no poller, makes no check-in and returns nil.
C35_Original ==
    (EmptyMimeList /\ runPc = "done") =>
        /\ scanCalls.submitScan = 1
        /\ workers = <<>>
        /\ checkins = <<>>
        /\ runErr = NoErr

C35_State ==
    EmptyMimeList =>
        /\ validateResult \in {"none", "ok"}
        /\ workers = <<>>
        /\ errs = <<>>
        /\ checkins = <<>>
        /\ (runPc = "done" /\ scanCalls.failed = "") =>
              (scanCalls.submitScan = 1 /\ runErr = NoErr)
        /\ (runPc = "done" /\ scanCalls.failed # "") => runErr # NoErr

C35_Step ==
    (EmptyMimeList /\ runPc = "polling") =>
        (workers' = workers /\ checkins' = checkins /\ runPc' \in {"polling", "done"})

\* C35: with an empty list of mime types and the registration and the scan
\* request valid, Validate accepts the parameters; Run starts no poller and
\* makes no check-in, and when it got the client and the scanner accepted the
\* scan it has submitted the scan once and returns nil; when the client or
\* the submission fails it returns that error.
C35_EmptyListRunsNoPoller == []C35_State /\ [][C35_Step]_vars

C35_Witness ==
    /\ EmptyMimeList
    /\ validateResult = "ok"
    /\ runPc = "done"
    /\ scanCalls = [getClient |-> 1, submitScan |-> 1, failed |-> ""]
    /\ workers = <<>>
    /\ runErr = NoErr

====
